---- MODULE Spec2Model ----
(***************************************************************************)
(* Agent Application Context: the event pipeline (AspectEngine), the       *)
(* lifecycle state machine (LifecycleManager), and the execution path of   *)
(* AgentApplicationContext (execute / shutdown / async executions).        *)
(***************************************************************************)
EXTENDS Integers, Sequences, FiniteSets, TLC

\* ------------------------------------------------------------------ bounds
\* most handlers ever registered with one AspectEngine
MaxHandlers == 3

\* most successful transitions recorded by one LifecycleManager
MaxTransitions == 2
\* most callbacks added to one LifecycleManager
MaxCallbacks == 2

\* most execute / execute_async calls made on one context
MaxTasks == 2

\* largest retry_count of a workflow step
MaxRetries == 1
\* most agent sub-steps of one parallel group
MaxSubSteps == 2
\* most WebSocket clients of the server
MaxConnections == 2
\* most broadcast calls of the server
MaxBroadcasts == 2
\* most coroutines of _execute_step alive at a time in one run
MaxCoroutines == 6
\* deepest nesting of _execute_step calls the interpreter lets one coroutine
\* make before it raises RecursionError
MaxDepth == 3

\* longest time, in clock units, one await of graceful_shutdown takes
MaxDelay == 1
\* largest timeout_seconds passed to graceful_shutdown, in clock units
MaxTimeout == 1

\* ------------------------------------------------------- AspectEngine data
\* AspectEventType: the fixed set of pointcut event kinds
AspectEventType == {"PreQuery", "PostQuery", "PreToolUse", "PostToolUse", "OnError"}

\* event kinds dispatched by the model
DispatchKinds == {"PreQuery", "PostQuery"}

\* agent names carried by an AspectContext
CtxAgents == {"a1", "a2"}

\* manifests offered to register: spec.order, pointcut.events, pointcut.agents,
\* and whether the handler class built for it raises in handle()
Manifests ==
    [order : {1, 2},
     events : {{}, {"PreQuery"}},
     agents : {{}, {"a1"}},
     raises : BOOLEAN]

NoApply ==
    [kind |-> "none", agent |-> "none", invoked |-> <<>>, errors |-> <<>>,
     raised |-> FALSE]

\* ------------------------------------------------------- agent handle data
\* AgentStatus
AgentStatus ==
    {"REGISTERED", "INITIALIZING", "READY", "EXECUTING", "ERROR", "DESTROYING",
     "DESTROYED", "LAZY"}

\* an AgentInstance: runtime = 0 is None, otherwise the number of the bound
\* runtime object; the counters are in whole units
AgentInstance(name, status, runtime) ==
    [name |-> name, status |-> status, runtime |-> runtime, query_count |-> 0,
     total_cost_usd |-> 0, total_duration_ms |-> 0]

\* the handles present after start(): an eager agent built by the factory, a
\* lazy placeholder, and a handle with the dataclass defaults (REGISTERED, no
\* runtime) that has no manifest
InitialInstances ==
    << AgentInstance("a1", "READY", 1),
       AgentInstance("a2", "LAZY", 0),
       AgentInstance("a3", "REGISTERED", 0) >>

\* the keys of AgentApplicationContext._agents, in insertion order
NameOrder == <<"a1", "a2", "a3">>

Names == {NameOrder[i] : i \in DOMAIN NameOrder}

\* the keys of AgentApplicationContext._manifests
ManifestNames == {"a1", "a2"}

\* the agent names callers pass to execute: the known ones and an unknown one
CallNames == Names \cup {"nx"}

\* what a runtime call does: return a result without error, return a result
\* with its error field set, or raise
RuntimeOutcomes == {"ok", "error", "raise"}

\* ExecutionResult of a runtime call that returned, in whole units
ExecutionResult(out) ==
    IF out = "ok"
    THEN [error |-> "none", cost_usd |-> 1, duration_ms |-> 2]
    ELSE [error |-> "failed", cost_usd |-> 0, duration_ms |-> 1]

\* one call of execute / execute_async: where its coroutine stands (pc), the
\* handle it holds (agent), its transaction number (tx), what its runtime call
\* did (rt) and how the call ended (outcome)
IdleTask ==
    [pc |-> "idle", mode |-> "none", name |-> "none", agent |-> 0, tx |-> 0,
     rt |-> "none", outcome |-> "none"]

IdleShutdown == [pc |-> "idle", idx |-> 0, agent |-> 0]

\* LifecycleManager._max_events
max_events == 500

NoCall == [op |-> "none", raised |-> "none"]

\* graceful_shutdown before it is called
IdleGraceful ==
    [pc |-> "idle", idx |-> 0, start_time |-> 0, timeout_seconds |-> 0,
     elapsed |-> 0, wait_start |-> 0, visits |-> <<>>, events |-> <<>>,
     stopped |-> 0]

\* what one await of graceful_shutdown may take
Delays == 0..MaxDelay

\* the timeout_seconds arguments of graceful_shutdown
Timeouts == 0..MaxTimeout

\* the cap on one wait for an EXECUTING agent: min(remaining, 10.0)
WaitCap == 10

\* the skip test without DESTROYING
SkippedStatusesNoDestroying == {"LAZY", "DESTROYED"}

\* the statuses graceful_shutdown passes over
SkippedStatuses == {"LAZY", "DESTROYED", "DESTROYING"}

\* the handles graceful_shutdown may be handed: of any status, with a runtime
\* from the given ones (0: none)
ShutdownHandles(name, runtimes) ==
    {AgentInstance(name, st, rt) : st \in AgentStatus, rt \in runtimes}

\* ---------------------------------------------------------- WorkflowEngine data
\* Python's None where a number may stand
None == 0 - 1

\* OnFailure
OnFailure == {"stop", "skip", "retry"}

\* the names of the top-level steps of a manifest, in declaration order
StepNames == <<"s1", "s2", "s3">>

\* WorkflowStep of type agent with agent and prompt given
WorkflowStep(name) ==
    [name : {name}, retry_count : 0..MaxRetries, on_failure : OnFailure]

\* the step lists of the manifests: one to three agent steps
StepLists ==
    UNION {[1..n -> UNION {WorkflowStep(StepNames[k]) : k \in 1..n}] : n \in 1..Len(StepNames)}

\* WorkflowSpec: the steps and the two ceilings, either of them None
WorkflowSpec ==
    [steps : {st \in StepLists : \A k \in DOMAIN st : st[k].name = StepNames[k]},
     max_total_cost_usd : {None, 0, 3},
     max_total_duration_seconds : {None, 1}]

\* what one call of ctx.execute does: return a result dict with success
\* true, return one with success false and its error set, or raise
AttemptOutcomes == {"ok", "error", "raise"}

\* the result dict ctx.execute returns
ExecuteResultDict(out) ==
    IF out = "ok"
    THEN [success |-> TRUE, error |-> "None", cost_usd |-> 2, duration_ms |-> 1000]
    ELSE [success |-> FALSE, error |-> "failed", cost_usd |-> 0, duration_ms |-> 1000]

\* int((time.monotonic() - start_time) * 1000) at the end of run
ElapsedMs == {0, 3000}

\* StepResult, with the number of ctx.execute calls made for the step and the
\* number of them that raised
StepResult(step, success, error, cost_usd, duration_ms, skipped, retries, calls, throws) ==
    [name |-> step.name, success |-> success, error |-> error,
     cost_usd |-> cost_usd, duration_ms |-> duration_ms, skipped |-> skipped,
     retries |-> retries, calls |-> calls, throws |-> throws]

\* wf_result.error: None, the ceiling message or the message naming a step
NoError == [kind |-> "None", step |-> "None"]

\* WorkflowEngine.run before it is called: the manifest, the position in
\* manifest.spec.steps (i), the locals of _execute_agent_step and wf_result
IdleWorkflow ==
    [pc |-> "idle",
     manifest |-> [steps |-> <<>>, max_total_cost_usd |-> None,
                   max_total_duration_seconds |-> None],
     i |-> 0, retries |-> 0, last_error |-> "None", calls |-> 0, throws |-> 0,
     steps |-> <<>>, total_cost_usd |-> 0, total_duration_ms |-> 0,
     error |-> NoError, success |-> FALSE]

\* ------------------------------------------- WorkflowEngine data: step trees
\* StepType
StepType == {"agent", "parallel", "condition"}

\* a string is the sequence of its pieces, the dots among them: "steps.s1" is
\* <<"steps", ".", "s1">>; the empty sequence stands for None
Dot == "."

\* f"steps.{name}", the key under which a step's outcome is put in the context
StepsKey(name) == <<"steps", Dot, name>>

\* the condition "steps.<name>.success"
SuccessOf(name) == <<"steps", Dot, name, Dot, "success">>

\* str.split
RECURSIVE Split(_, _)
Split(str, sep) ==
    IF \A k \in 1..Len(str) : str[k] # sep
    THEN <<str>>
    ELSE LET k == CHOOSE j \in 1..Len(str) :
                     str[j] = sep /\ \A h \in 1..(j - 1) : str[h] # sep
         IN <<SubSeq(str, 1, k - 1)>> \o Split(SubSeq(str, k + 1, Len(str)), sep)

\* the values a context holds: None, a bool, a string, a dict
NoneValue == [kind |-> "none"]

BoolValue(b) == [kind |-> "bool", b |-> b]

StrValue(str) == IF str = <<>> THEN NoneValue ELSE [kind |-> "str", str |-> str]

DictValue(items) == [kind |-> "dict", items |-> items]

\* bool(value)
Bool(value) ==
    CASE value.kind = "none" -> FALSE
      [] value.kind = "bool" -> value.b
      [] value.kind = "str" -> value.str # <<>>
      [] value.kind = "dict" -> DOMAIN value.items # {}

\* dict.get
Get(value, key) ==
    IF key \in DOMAIN value.items THEN value.items[key] ELSE NoneValue

\* d[key] = item
Put(value, key, item) ==
    DictValue([k \in DOMAIN value.items \cup {key} |->
                  IF k = key THEN item ELSE value.items[k]])

\* the empty dict
EmptyDict == DictValue([k \in {} |-> NoneValue])

\* the initial contexts: empty, or {"ready": True}
InitialContexts == {EmptyDict, Put(EmptyDict, <<"ready">>, BoolValue(TRUE))}

\* WorkflowStep of type agent, with agent and prompt given
AgentStep(name, on_failure, retry_count) ==
    [name |-> name, type |-> "agent", on_failure |-> on_failure,
     retry_count |-> retry_count,
     steps |-> <<>>, condition |-> <<>>, if_true |-> "None", if_false |-> "None"]

\* WorkflowStep of type parallel
ParallelStep(name, steps) ==
    [name |-> name, type |-> "parallel", on_failure |-> "stop", retry_count |-> 0,
     steps |-> steps, condition |-> <<>>, if_true |-> "None", if_false |-> "None"]

\* WorkflowStep of type condition
ConditionStep(name, condition, if_true, if_false) ==
    [name |-> name, type |-> "condition", on_failure |-> "stop", retry_count |-> 0,
     steps |-> <<>>, condition |-> condition, if_true |-> if_true,
     if_false |-> if_false]

\* the names of the agent sub-steps of the two parallel groups
SubNames == <<"p1", "p2", "p3", "p4">>

MoreSubNames == <<"q1", "q2", "q3", "q4">>

\* n agent sub-steps, the first of them with the policy skip
SubSteps(names, n) ==
    [k \in 1..n |-> AgentStep(names[k], IF k = 1 THEN "skip" ELSE "stop", 0)]

\* a manifest whose only top-level step is a parallel group of n agent steps
ParallelManifests ==
    {<<ParallelStep("par", SubSteps(SubNames, n))>> : n \in 0..MaxSubSteps}

\* a manifest whose only top-level step is a parallel group of two parallel
\* groups, of n agent steps and of one
NestedManifests ==
    {<<ParallelStep("outer",
                    <<ParallelStep("g1", SubSteps(SubNames, n)),
                      ParallelStep("g2", SubSteps(MoreSubNames, 1))>>)>> :
        n \in 1..MaxSubSteps}

\* the conditions of the conditional steps: on the outcome of s1, on a step
\* that does not exist, on a key of the initial context, and none
Conditions == {SuccessOf("s1"), SuccessOf("nope"), <<"ready">>, <<>>}

\* a manifest of an agent step, a conditional step and its two targets
ConditionManifests ==
    {<<AgentStep("s1", "skip", MaxRetries), ConditionStep("decide", c, t, "s4"),
       AgentStep("s3", "stop", 0), AgentStep("s4", "stop", 0)>> :
        c \in Conditions, t \in {"s3", "s5", "None"}}

\* manifests with a conditional step whose target leads back to it: at once,
\* by way of a second conditional step, and by way of the parallel group it
\* is a sub-step of
CycleManifests ==
    {<<ConditionStep("decide", SuccessOf("nope"), "None", "decide")>>,
     <<ConditionStep("decide", SuccessOf("nope"), "None", "again"),
       ConditionStep("again", SuccessOf("nope"), "None", "decide")>>,
     <<ParallelStep("par",
                    <<ConditionStep("decide", SuccessOf("nope"), "None", "par")>>)>>}

\* the manifests of the runs over step trees
TreeSpecs ==
    [steps : ParallelManifests \cup NestedManifests \cup ConditionManifests
                \cup CycleManifests,
     max_total_cost_usd : {None, 3},
     max_total_duration_seconds : {None},
     context : InitialContexts]

\* what one call of ctx.execute for a sub-step does: as AttemptOutcomes, or
\* return a success that cost less and took longer
TreeOutcomes == AttemptOutcomes \cup {"slow"}

\* the result dict ctx.execute returns, its error a string
TreeResultDict(out) ==
    IF out = "slow"
    THEN [success |-> TRUE, error |-> <<>>, cost_usd |-> 1, duration_ms |-> 2000]
    ELSE [ExecuteResultDict(out) EXCEPT
             !.error = IF out = "ok" THEN <<>> ELSE <<"failed">>]

\* a coroutine of _execute_step: the step it executes, the coroutine that
\* awaits it (0: run) and its place among that one's tasks, where it stands,
\* the locals of _execute_agent_step, and the sub_results gathered so far
Frame(step, parent, slot) ==
    [step |-> step, parent |-> parent, slot |-> slot, pc |-> "new",
     retries |-> 0, last_error |-> <<>>, calls |-> 0, sub_results |-> <<>>,
     done |-> {}]

\* the step _find_step returns when it finds none
NoStep ==
    [name |-> "None", type |-> "none", on_failure |-> "stop", retry_count |-> 0,
     steps |-> <<>>, condition |-> <<>>, if_true |-> "None", if_false |-> "None"]

\* StepResult of a step of a tree, with the type of the step it was built for
TreeResult(step, success, error, cost_usd, duration_ms, skipped, retries) ==
    [name |-> step.name, type |-> step.type, success |-> success, error |-> error,
     cost_usd |-> cost_usd, duration_ms |-> duration_ms, skipped |-> skipped,
     retries |-> retries]

\* what asyncio.gather hands back for a task that ended with an exception
ExceptionResult(message) ==
    [name |-> "None", type |-> "exception", success |-> FALSE, error |-> message,
     cost_usd |-> 0, duration_ms |-> 0, skipped |-> FALSE, retries |-> 0]

\* WorkflowEngine.run over a step tree before it is called: the manifest, the
\* position in manifest.spec.steps (i), the coroutines, wf_result, the names
\* of the steps ctx.execute was called for, in call order, the total
\* duration _check_limits saw last, and the time elapsed since run began
IdleEngine ==
    [pc |-> "idle",
     manifest |-> [steps |-> <<>>, max_total_cost_usd |-> None,
                   max_total_duration_seconds |-> None, context |-> EmptyDict],
     i |-> 0, frames |-> <<>>,
     steps |-> <<>>, total_cost_usd |-> 0, total_duration_ms |-> 0,
     context |-> EmptyDict, error |-> NoError, success |-> FALSE,
     invoked |-> <<>>, checked_duration_ms |-> 0, elapsed |-> 0]

VARIABLES
    handlers,     \* AspectEngine._handlers: the handler list, in list order
    lastApply,    \* the apply() call most recently made on the current list:
                  \* its arguments, the handlers whose handle() was called (in
                  \* call order, by registration number) and whether apply raised
    inst,         \* the AgentInstance objects, by object number
    events,       \* LifecycleManager._events: the transition history
    callbacks,    \* LifecycleManager._callbacks: for each, whether it raises
    cbLog,        \* the callback invocations, in call order, made by the
                  \* latest transition that reached its callback loop
    lcCall,       \* the LifecycleManager call made last and how it ended
    agents,       \* AgentApplicationContext._agents: name -> object number
    tasks,        \* the execute / execute_async calls, by call number
    tx_counter,   \* AgentApplicationContext._tx_counter
    rtCalls,      \* how many times a runtime's execute has been called
    shut,         \* the coroutine of AgentApplicationContext.shutdown
    started,      \* AgentApplicationContext._started
    executions,   \* the execution records' status, by call number
    lastCancel,   \* what the latest cancel(executionId) returned or raised
    gs,           \* the coroutine of LifecycleManager.graceful_shutdown
    clock,        \* time.monotonic()
    wf,           \* the coroutine of WorkflowEngine.run
    eng,          \* WorkflowEngine.run over a tree of steps and its coroutines
    cm            \* the ConnectionManager, its clients and its broadcast calls

aspectVars == <<handlers, lastApply>>

managerVars == <<events, callbacks, cbLog, lcCall>>

lifecycleVars == <<inst, events, callbacks, cbLog, lcCall>>

contextVars ==
    <<agents, tasks, tx_counter, rtCalls, shut, started, executions, lastCancel>>

shutdownVars == <<gs, clock>>

workflowVars == <<wf, eng>>

serverVars == <<cm>>

vars ==
    <<handlers, lastApply, inst, events, callbacks, cbLog, lcCall, agents, tasks,
      tx_counter, rtCalls, shut, started, executions, lastCancel, gs, clock, wf,
      eng, cm>>

\* ------------------------------------------------------ AspectEngine.register
\* an unstable insertion: x goes in front of the elements with an equal key
RECURSIVE InsertUnstable(_, _)
InsertUnstable(sorted, x) ==
    IF sorted = <<>> THEN <<x>>
    ELSE IF Head(sorted).order < x.order
         THEN <<Head(sorted)>> \o InsertUnstable(Tail(sorted), x)
         ELSE <<x>> \o sorted

\* list.sort(key=order) is stable: insert x behind every element whose key is
\* not greater than x's
RECURSIVE InsertStable(_, _)
InsertStable(sorted, x) ==
    IF sorted = <<>> THEN <<x>>
    ELSE IF Head(sorted).order <= x.order
         THEN <<Head(sorted)>> \o InsertStable(Tail(sorted), x)
         ELSE <<x>> \o sorted

RECURSIVE SortByOrder(_)
SortByOrder(hs) ==
    IF hs = <<>> THEN <<>>
    ELSE InsertStable(SortByOrder(SubSeq(hs, 1, Len(hs) - 1)), hs[Len(hs)])

\* handler = handler_cls(manifest); reg numbers the registrations
NewHandler(m) ==
    [reg |-> Len(handlers) + 1, order |-> m.order, events |-> m.events,
     agents |-> m.agents, raises |-> m.raises]

Register(m) ==
    /\ Len(handlers) < MaxHandlers
    /\ handlers' = SortByOrder(Append(handlers, NewHandler(m)))
    /\ lastApply' = NoApply
    /\ UNCHANGED <<lifecycleVars, contextVars, shutdownVars, workflowVars, serverVars>>

\* --------------------------------------------------------- AspectEngine.apply
\* _matches with the emptiness tests dropped: an empty set matches nothing
MatchesNonEmptyOnly(h, event_type, agent_name) ==
    IF event_type \notin h.events THEN FALSE
    ELSE IF h.agents # {} /\ agent_name \notin h.agents THEN FALSE
    ELSE TRUE

\* _matches(handler, event_type, ctx)
Matches(h, event_type, agent_name) ==
    IF h.events # {} /\ event_type \notin h.events THEN FALSE
    ELSE IF h.agents # {} /\ agent_name \notin h.agents THEN FALSE
    ELSE TRUE

\* the for loop of apply with no try/except around handle(): the first
\* raising handler ends the loop and the exception reaches the caller
RECURSIVE ApplyLoopNoCatch(_, _, _, _, _)
ApplyLoopNoCatch(hs, i, event_type, agent_name, r) ==
    IF i > Len(hs) THEN r
    ELSE IF ~Matches(hs[i], event_type, agent_name)
         THEN ApplyLoopNoCatch(hs, i + 1, event_type, agent_name, r)
         ELSE LET called == [r EXCEPT !.invoked = Append(@, hs[i].reg)]
              IN IF hs[i].raises
                 THEN [called EXCEPT !.raised = TRUE]
                 ELSE ApplyLoopNoCatch(hs, i + 1, event_type, agent_name, called)

\* the for loop of apply from position i on; r holds the handlers called so
\* far (invoked), the handlers whose exception was logged (errors) and whether
\* an exception left apply (raised)
RECURSIVE ApplyLoop(_, _, _, _, _)
ApplyLoop(hs, i, event_type, agent_name, r) ==
    IF i > Len(hs) THEN r
    ELSE IF ~Matches(hs[i], event_type, agent_name)
         THEN ApplyLoop(hs, i + 1, event_type, agent_name, r)         \* continue
         ELSE LET called == [r EXCEPT !.invoked = Append(@, hs[i].reg)]
              IN IF hs[i].raises
                 THEN \* except Exception as e: logger.error(...)
                      ApplyLoop(hs, i + 1, event_type, agent_name,
                                [called EXCEPT !.errors = Append(@, hs[i].reg)])
                 ELSE ApplyLoop(hs, i + 1, event_type, agent_name, called)

Apply(event_type, agent_name) ==
    /\ lastApply' = ApplyLoop(handlers, 1, event_type, agent_name,
                              [NoApply EXCEPT !.kind = event_type,
                                              !.agent = agent_name])
    /\ UNCHANGED handlers
    /\ UNCHANGED <<lifecycleVars, contextVars, shutdownVars, workflowVars, serverVars>>

\* ----------------------------------------------------------- LifecycleManager
\* VALID_TRANSITIONS
VALID_TRANSITIONS ==
    [s \in AgentStatus |->
        CASE s = "REGISTERED"   -> {"INITIALIZING", "LAZY"}
          [] s = "LAZY"         -> {"INITIALIZING"}
          [] s = "INITIALIZING" -> {"READY", "ERROR"}
          [] s = "READY"        -> {"EXECUTING", "DESTROYING", "ERROR"}
          [] s = "EXECUTING"    -> {"READY", "ERROR", "DESTROYING"}
          [] s = "ERROR"        -> {"INITIALIZING", "DESTROYING"}
          [] s = "DESTROYING"   -> {"DESTROYED", "ERROR"}
          [] s = "DESTROYED"    -> {}]

\* the validity test with the lookup made the wrong way round: the table
\* entry of the target is searched for the current status
TransitionValidSwapped(old_status, new_status) ==
    old_status \in VALID_TRANSITIONS[new_status]

\* valid = VALID_TRANSITIONS.get(old_status, set()); new_status in valid
TransitionValid(old_status, new_status) ==
    new_status \in VALID_TRANSITIONS[old_status]

\* LifecycleEvent(agent_name, old_status, new_status, error)
LifecycleEvent(agent_name, old_status, new_status, error) ==
    [agent_name |-> agent_name, old_status |-> old_status,
     new_status |-> new_status, error |-> error]

\* self._events.append(event), then keep the first _max_events
AppendEventKeepsOldest(evs, event) ==
    LET all == Append(evs, event)
    IN IF Len(all) > max_events
       THEN SubSeq(all, 1, max_events)
       ELSE all

\* self._events.append(event), then keep the last _max_events
AppendEvent(evs, event) ==
    LET all == Append(evs, event)
    IN IF Len(all) > max_events
       THEN SubSeq(all, Len(all) - max_events + 1, Len(all))
       ELSE all

RECURSIVE CallbackLoop(_, _, _, _, _)

\* the callback loop left at the first callback that raises
CallbackLoopStopsAtRaise(i, event, status, evs, log) ==
    IF i > Len(callbacks)
    THEN log
    ELSE LET call == [cb |-> i, event |-> event, raised |-> callbacks[i].raises,
                      status |-> status, recorded |-> evs]
         IN IF callbacks[i].raises
            THEN Append(log, call)
            ELSE CallbackLoop(i + 1, event, status, evs, Append(log, call))

\* for cb in self._callbacks: try cb(event) except Exception: warning, from
\* callback i on; each call is noted with the status of the handle and the
\* history as they are when it is made
CallbackLoop(i, event, status, evs, log) ==
    IF i > Len(callbacks)
    THEN log
    ELSE CallbackLoop(i + 1, event, status, evs,
                      Append(log, [cb |-> i, event |-> event,
                                   raised |-> callbacks[i].raises,
                                   status |-> status, recorded |-> evs]))

\* the callback invocations of a transition that has set the handle's status
\* and left the history evs
CallbackCalls(event, status, evs) == CallbackLoop(1, event, status, evs, <<>>)

\* the error argument passed with a target: a message accompanies ERROR only
TransitionErrors(new_status) ==
    IF new_status = "ERROR" THEN {"none", "crash"} ELSE {"none"}

AddCallback(raises) ==
    /\ Len(callbacks) < MaxCallbacks
    /\ callbacks' = Append(callbacks, [raises |-> raises])
    /\ lcCall' = [NoCall EXCEPT !.op = "add_callback"]
    /\ UNCHANGED <<inst, events, cbLog>>
    /\ UNCHANGED <<aspectVars, contextVars, shutdownVars, workflowVars, serverVars>>

\* LifecycleManager.transition(agent, new_status, error=error)
TransitionCall(o, new_status, error) ==
    /\ LET old_status == inst[o].status
           event == LifecycleEvent(inst[o].name, old_status, new_status, error)
       IN IF ~TransitionValid(old_status, new_status)
          THEN \* raise ValueError
               /\ lcCall' = [op |-> "transition", raised |-> "ValueError"]
               /\ UNCHANGED <<inst, events, cbLog>>
          ELSE /\ inst' = [inst EXCEPT ![o].status = new_status]
               /\ events' = AppendEvent(events, event)
               /\ cbLog' = CallbackCalls(event, new_status,
                                         AppendEvent(events, event))
               /\ lcCall' = [op |-> "transition", raised |-> "none"]
    /\ UNCHANGED callbacks
    /\ UNCHANGED <<aspectVars, contextVars, shutdownVars, workflowVars, serverVars>>

\* transition, while fewer than MaxTransitions transitions have succeeded
Transition(o, new_status, error) ==
    /\ TransitionValid(inst[o].status, new_status) => Len(events) < MaxTransitions
    /\ TransitionCall(o, new_status, error)

\* ------------------------------------------- AgentApplicationContext.execute
\* call numbers are handed out in call order
CanStart(t) ==
    /\ tasks[t].pc = "idle"
    /\ \A u \in 1..(t - 1) : tasks[u].pc # "idle"

\* execute from the runtime check to the runtime call, with the id generation
\* moved in front of the runtime check
BeginInvocationCountFirst(ins, t, o) ==
    IF ins[o].runtime = 0
    THEN [inst |-> ins,
          task |-> [tasks[t] EXCEPT !.pc = "done", !.agent = o,
                                    !.outcome = "RuntimeError"],
          tx_counter |-> tx_counter + 1,
          rtCalls |-> rtCalls]
    ELSE [inst |-> [ins EXCEPT ![o].status = "EXECUTING"],
          task |-> [tasks[t] EXCEPT !.pc = "running", !.agent = o,
                                    !.tx = tx_counter + 1],
          tx_counter |-> tx_counter + 1,
          rtCalls |-> rtCalls + 1]

\* the decimal digits of n
RECURSIVE Digits(_)
Digits(n) == IF n < 10 THEN <<n>> ELSE Append(Digits(n \div 10), n % 10)

\* f"{n:03d}": the digits of n, with zeros in front up to three places
Format03d(n) ==
    LET ds == Digits(n)
    IN IF Len(ds) >= 3 THEN ds ELSE [k \in 1..(3 - Len(ds)) |-> 0] \o ds

\* tx_id = f"tx_{self._tx_counter:03d}" of the invocation that read n
TxId(n) == <<"tx_", Format03d(n)>>

\* execute from the runtime check to the runtime call, reading the counter
\* without advancing it
BeginInvocationCounterNotAdvanced(ins, t, o) ==
    IF ins[o].runtime = 0
    THEN [inst |-> ins,
          task |-> [tasks[t] EXCEPT !.pc = "done", !.agent = o,
                                    !.outcome = "RuntimeError"],
          tx_counter |-> tx_counter,
          rtCalls |-> rtCalls]
    ELSE [inst |-> [ins EXCEPT ![o].status = "EXECUTING"],
          task |-> [tasks[t] EXCEPT !.pc = "running", !.agent = o,
                                    !.tx = tx_counter + 1],
          tx_counter |-> tx_counter,
          rtCalls |-> rtCalls + 1]

\* execute from the runtime check to the runtime call, on handle o of the
\* object store ins: raise RuntimeError when no runtime is bound; otherwise
\* count the transaction, set EXECUTING and await runtime.execute
BeginInvocation(ins, t, o) ==
    IF ins[o].runtime = 0
    THEN [inst |-> ins,
          task |-> [tasks[t] EXCEPT !.pc = "done", !.agent = o,
                                    !.outcome = "RuntimeError"],
          tx_counter |-> tx_counter,
          rtCalls |-> rtCalls]
    ELSE [inst |-> [ins EXCEPT ![o].status = "EXECUTING"],
          task |-> [tasks[t] EXCEPT !.pc = "running", !.agent = o,
                                    !.tx = tx_counter + 1],
          tx_counter |-> tx_counter + 1,
          rtCalls |-> rtCalls + 1]

\* the part of execute up to its first await, for call t in the given mode
StartCall(t, mode, agent_name) ==
    /\ CanStart(t)
    /\ LET task == [tasks[t] EXCEPT !.mode = mode, !.name = agent_name]
       IN IF agent_name \notin DOMAIN agents
          THEN \* get_agent raises KeyError
               /\ tasks' = [tasks EXCEPT ![t] =
                                [task EXCEPT !.pc = "done", !.outcome = "KeyError"]]
               /\ UNCHANGED <<inst, tx_counter, rtCalls>>
          ELSE LET o == agents[agent_name]
               IN IF inst[o].status = "LAZY" /\ agent_name \in ManifestNames
                  THEN \* await self._factory.create(manifest)
                       /\ tasks' = [tasks EXCEPT ![t] =
                                        [task EXCEPT !.pc = "creating", !.agent = o]]
                       /\ UNCHANGED <<inst, tx_counter, rtCalls>>
                  ELSE LET b == BeginInvocation(inst, t, o)
                       IN /\ tasks' = [tasks EXCEPT ![t] =
                                          [b.task EXCEPT !.mode = mode,
                                                         !.name = agent_name]]
                          /\ inst' = b.inst
                          /\ tx_counter' = b.tx_counter
                          /\ rtCalls' = b.rtCalls
    /\ UNCHANGED agents

\* execute(agent_name, prompt) is called
ExecStart(t, agent_name) ==
    /\ StartCall(t, "sync", agent_name)
    /\ UNCHANGED <<shut, started, executions, lastCancel>>
    /\ UNCHANGED <<aspectVars, managerVars, shutdownVars, workflowVars, serverVars>>

\* AgentFactory.create returns the new instance (READY, runtime bound) or
\* raises; execute stores the instance in the table and goes on with it
CreatedCall(t, created) ==
    /\ tasks[t].pc = "creating"
    /\ IF ~created
       THEN /\ tasks' = [tasks EXCEPT ![t].pc = "done", ![t].outcome = "FactoryError"]
            /\ UNCHANGED <<inst, agents, tx_counter, rtCalls>>
       ELSE LET o == Len(inst) + 1
                new_agent == AgentInstance(tasks[t].name, "READY", o)
                b == BeginInvocation(Append(inst, new_agent), t, o)
            IN /\ agents' = [agents EXCEPT ![tasks[t].name] = o]
               /\ tasks' = [tasks EXCEPT ![t] = b.task]
               /\ inst' = b.inst
               /\ tx_counter' = b.tx_counter
               /\ rtCalls' = b.rtCalls

ExecCreated(t, created) ==
    /\ tasks[t].mode = "sync"
    /\ CreatedCall(t, created)
    /\ UNCHANGED <<shut, started, executions, lastCancel>>
    /\ UNCHANGED <<aspectVars, managerVars, shutdownVars, workflowVars, serverVars>>

\* the handle after "result = await agent.runtime.execute(...)" has returned
AfterRuntimeReturn(a, result) ==
    [a EXCEPT !.status = "READY",
              !.query_count = @ + 1,
              !.total_cost_usd = @ + result.cost_usd,
              !.total_duration_ms = @ + result.duration_ms]

\* the end of execute: the runtime call returns (the rest of execute runs and
\* the result dict is returned) or raises (the exception leaves execute)
FinishCall(t, out) ==
    /\ tasks[t].pc = "running"
    /\ LET o == tasks[t].agent
       IN IF out = "raise"
          THEN /\ tasks' = [tasks EXCEPT ![t].pc = "done", ![t].rt = out,
                                         ![t].outcome = "raised"]
               /\ UNCHANGED inst
          ELSE /\ inst' = [inst EXCEPT ![o] =
                              AfterRuntimeReturn(@, ExecutionResult(out))]
               /\ tasks' = [tasks EXCEPT
                              ![t].pc = "done", ![t].rt = out,
                              ![t].outcome =
                                  IF ExecutionResult(out).error = "none"
                                  THEN "returned_success"
                                  ELSE "returned_error"]
    /\ UNCHANGED <<agents, tx_counter, rtCalls>>

ExecReturn(t, out) ==
    /\ tasks[t].mode = "sync"
    /\ FinishCall(t, out)
    /\ UNCHANGED <<shut, started, executions, lastCancel>>
    /\ UNCHANGED <<aspectVars, managerVars, shutdownVars, workflowVars, serverVars>>

\* ------------------------------------------ AgentApplicationContext.shutdown
\* the next position from i on in self._agents.items() whose agent has a
\* runtime and is not LAZY; 0 when the loop runs out
RECURSIVE NextShutdownTarget(_, _)
NextShutdownTarget(ins, i) ==
    IF i > Len(NameOrder) THEN 0
    ELSE LET a == ins[agents[NameOrder[i]]]
         IN IF a.runtime # 0 /\ a.status # "LAZY"
            THEN i
            ELSE NextShutdownTarget(ins, i + 1)

\* the loop of shutdown from position i on, up to its next await
ShutdownLoop(ins, i) ==
    LET j == NextShutdownTarget(ins, i)
    IN IF j = 0
       THEN /\ inst' = ins
            /\ shut' = IdleShutdown
            /\ started' = FALSE
       ELSE LET o == agents[NameOrder[j]]
            IN /\ inst' = [ins EXCEPT ![o].status = "DESTROYING"]
               /\ shut' = [pc |-> "awaiting", idx |-> j, agent |-> o]
               /\ UNCHANGED started

ShutdownStart ==
    /\ shut.pc = "idle"
    /\ ShutdownLoop(inst, 1)
    /\ UNCHANGED <<agents, tasks, tx_counter, rtCalls, executions, lastCancel>>
    /\ UNCHANGED <<aspectVars, managerVars, shutdownVars, workflowVars, serverVars>>

\* await agent.runtime.shutdown() returns (DESTROYED) or raises (logged)
ShutdownResume(ok) ==
    /\ shut.pc = "awaiting"
    /\ ShutdownLoop(IF ok THEN [inst EXCEPT ![shut.agent].status = "DESTROYED"]
                          ELSE inst,
                    shut.idx + 1)
    /\ UNCHANGED <<agents, tasks, tx_counter, rtCalls, executions, lastCancel>>
    /\ UNCHANGED <<aspectVars, managerVars, shutdownVars, workflowVars, serverVars>>

\* --------------------------------------------------- asynchronous executions
\* the statuses of an ExecutionRecord; "none" stands for no record
RecordStatus == {"running", "completed", "error", "cancelled"}

\* the record of call t once the setup is through and the runtime call has
\* been handed to the background task: created in status running
RecordOnSpawn(t, task) ==
    IF task.pc = "running" THEN [executions EXCEPT ![t] = "running"]
    ELSE executions

\* the background task forgetting to update the record
RecordOnFinishStaysRunning(out) == IF out = "none" THEN "none" ELSE "running"

\* the status the background task writes when the runtime call is over
RecordOnFinish(out) == IF out = "ok" THEN "completed" ELSE "error"

\* cancel with the status test dropped: any record found is cancelled
CancellableAnyRecord(status) == status \in RecordStatus

\* cancel with the status test always failing: nothing is ever cancelled
CancellableNever(status) == status \notin RecordStatus \cup {"none"}

\* cancel acts only on an execution that is still running
Cancellable(status) == status = "running"

\* execute_async(agent_name, prompt): the setup of execute, then the record
ExecuteAsync(t, agent_name) ==
    /\ StartCall(t, "async", agent_name)
    /\ executions' = RecordOnSpawn(t, tasks'[t])
    /\ UNCHANGED <<shut, started, lastCancel>>
    /\ UNCHANGED <<aspectVars, managerVars, shutdownVars, workflowVars, serverVars>>

\* the lazy creation of execute_async's setup is over
AsyncCreated(t, created) ==
    /\ tasks[t].mode = "async"
    /\ CreatedCall(t, created)
    /\ executions' = RecordOnSpawn(t, tasks'[t])
    /\ UNCHANGED <<shut, started, lastCancel>>
    /\ UNCHANGED <<aspectVars, managerVars, shutdownVars, workflowVars, serverVars>>

\* the background task: the runtime call is over, the record is updated
AsyncFinish(t, out) ==
    /\ tasks[t].mode = "async"
    /\ FinishCall(t, out)
    /\ executions' = [executions EXCEPT ![t] = RecordOnFinish(out)]
    /\ UNCHANGED <<shut, started, lastCancel>>
    /\ UNCHANGED <<aspectVars, managerVars, shutdownVars, workflowVars, serverVars>>

\* cancel(executionId): NotFound without a record; a running execution has
\* its background task cancelled (the task ends at its await) and its record
\* marked cancelled; otherwise nothing happens and false is returned
CancelExecution(t) ==
    /\ IF executions[t] = "none"
       THEN /\ lastCancel' = "KeyError"
            /\ UNCHANGED <<tasks, executions>>
       ELSE IF Cancellable(executions[t])
            THEN /\ tasks' = [tasks EXCEPT ![t].pc = "done",
                                           ![t].outcome = "cancelled"]
                 /\ executions' = [executions EXCEPT ![t] = "cancelled"]
                 /\ lastCancel' = "true"
            ELSE /\ lastCancel' = "false"
                 /\ UNCHANGED <<tasks, executions>>
    /\ UNCHANGED <<inst, agents, tx_counter, rtCalls, shut, started>>
    /\ UNCHANGED <<aspectVars, managerVars, shutdownVars, workflowVars, serverVars>>

\* ------------------------------------------ LifecycleManager.graceful_shutdown
\* what graceful_shutdown has done so far with the handle it is at: the handle
\* (agent), its status at the skip test (seen), the targets of the events
\* collected for it (emitted), the calls of runtime.shutdown made (shutdowns)
\* and whether one raised, the transition that raised (failed), the status of
\* the handle when a step of the sequence first raised (raised_at) and the
\* status of the handle when the loop went on (final)
NewVisit(o, status, i) ==
    [agent |-> o, pos |-> i, seen |-> status, emitted |-> <<>>, shutdowns |-> 0,
     shutdown_raised |-> FALSE, failed |-> "none", raised_at |-> "none",
     final |-> "none"]

\* a step of the sequence raises: note which transition (if one) and the
\* status the handle has at that moment
NoteRaise(G, transition) ==
    LET v == Len(G.gs.visits)
        x == G.gs.visits[v]
    IN [G EXCEPT !.gs.visits[v].failed = transition,
                 !.gs.visits[v].raised_at =
                     IF x.raised_at = "none" THEN G.inst[x.agent].status
                     ELSE x.raised_at]

\* the loop variables of graceful_shutdown together with the objects it
\* changes
GsFrame == [inst |-> inst, events |-> events, cbLog |-> cbLog, gs |-> gs]

\* ev = self.transition(agent, new_status); events.append(ev), inside the
\* try block: ok is false when transition raised ValueError
GsTransition(G, o, new_status, error) ==
    LET old_status == G.inst[o].status
        event == LifecycleEvent(G.inst[o].name, old_status, new_status, error)
        v == Len(G.gs.visits)
    IN IF ~TransitionValid(old_status, new_status)
       THEN [ok |-> FALSE, G |-> G]
       ELSE [ok |-> TRUE,
             G |-> [G EXCEPT !.inst[o].status = new_status,
                             !.events = AppendEvent(@, event),
                             !.cbLog = CallbackCalls(event, new_status,
                                                     AppendEvent(G.events, event)),
                             !.gs.events = Append(@, event),
                             !.gs.visits[v].emitted = Append(@, new_status)]]

\* the loop leaves the handle it is at
CloseVisit(G) ==
    LET v == Len(G.gs.visits)
    IN [G EXCEPT !.gs.visits[v].final = G.inst[G.gs.visits[v].agent].status]

RECURSIVE GsLoop(_, _, _)
RECURSIVE GsFail(_, _, _)
RECURSIVE GsFinish(_, _, _)
RECURSIVE GsDestroy(_, _, _)

\* the except branch without its ERROR transition
GsFailNoError(G, i, now) == GsLoop(CloseVisit(G), i + 1, now)

\* the except branch: the ERROR transition, best effort
GsFail(G, i, now) ==
    LET o == G.gs.visits[Len(G.gs.visits)].agent
        r == GsTransition(G, o, "ERROR", "crash")
    IN GsLoop(CloseVisit(r.G), i + 1, now)

\* after runtime.shutdown(): the DESTROYED transition
GsFinish(G, i, now) ==
    LET v == Len(G.gs.visits)
        o == G.gs.visits[v].agent
        r == GsTransition(G, o, "DESTROYED", "none")
    IN IF r.ok
       THEN GsLoop(CloseVisit(r.G), i + 1, now)
       ELSE GsFail(NoteRaise(G, "DESTROYED"), i, now)

\* the DESTROYING transition with the call of runtime.shutdown() left out
GsDestroyNoShutdown(G, i, now) ==
    LET v == Len(G.gs.visits)
        o == G.gs.visits[v].agent
        r == GsTransition(G, o, "DESTROYING", "none")
    IN IF ~r.ok
       THEN GsFail(NoteRaise(G, "DESTROYING"), i, now)
       ELSE GsFinish(r.G, i, now)

\* the DESTROYING transition, then the call of runtime.shutdown() if a runtime
\* is bound
GsDestroy(G, i, now) ==
    LET v == Len(G.gs.visits)
        o == G.gs.visits[v].agent
        r == GsTransition(G, o, "DESTROYING", "none")
    IN IF ~r.ok
       THEN GsFail(NoteRaise(G, "DESTROYING"), i, now)
       ELSE IF r.G.inst[o].runtime # 0
            THEN [r.G EXCEPT !.gs.pc = "awaiting",
                             !.gs.visits[v].shutdowns = @ + 1]
            ELSE GsFinish(r.G, i, now)

\* the for loop without the test of the elapsed time
GsLoopNoTimeout(G, i, now) ==
    IF i > Len(NameOrder)
    THEN [G EXCEPT !.gs.pc = "done", !.gs.idx = i]
    ELSE LET o == agents[NameOrder[i]]
             status == G.inst[o].status
             G1 == [G EXCEPT !.gs.idx = i, !.gs.elapsed = now - G.gs.start_time,
                             !.gs.visits = Append(@, NewVisit(o, status, i))]
         IN IF status \in SkippedStatuses
            THEN GsLoop(CloseVisit(G1), i + 1, now)
            ELSE IF status = "EXECUTING"
                 THEN [G1 EXCEPT !.gs.pc = "waiting", !.gs.wait_start = now]
                 ELSE GsDestroy(G1, i, now)

\* the for loop from position i of agents.items() on, up to its next await or
\* its end, at time now
GsLoop(G, i, now) ==
    IF i > Len(NameOrder)
    THEN [G EXCEPT !.gs.pc = "done", !.gs.idx = i]
    ELSE LET elapsed == now - G.gs.start_time
         IN IF elapsed > G.gs.timeout_seconds
            THEN [G EXCEPT !.gs.pc = "done", !.gs.idx = i, !.gs.stopped = i,
                           !.gs.elapsed = elapsed]
            ELSE LET o == agents[NameOrder[i]]
                     status == G.inst[o].status
                     G1 == [G EXCEPT !.gs.idx = i, !.gs.elapsed = elapsed,
                                     !.gs.visits = Append(@, NewVisit(o, status, i))]
                 IN IF status \in SkippedStatuses
                    THEN GsLoop(CloseVisit(G1), i + 1, now)
                    ELSE IF status = "EXECUTING"
                         THEN [G1 EXCEPT !.gs.pc = "waiting",
                                         !.gs.wait_start = now]
                         ELSE GsDestroy(G1, i, now)

\* the state after a stretch of graceful_shutdown
GsCommit(G) ==
    /\ inst' = G.inst
    /\ events' = G.events
    /\ cbLog' = G.cbLog
    /\ gs' = G.gs

\* graceful_shutdown(agents, timeout_seconds=...) is called
GracefulStart(timeout_seconds) ==
    /\ gs.pc = "idle"
    /\ GsCommit(GsLoop([GsFrame EXCEPT !.gs.start_time = clock,
                                       !.gs.timeout_seconds = timeout_seconds],
                       1, clock))
    /\ UNCHANGED <<clock, callbacks, lcCall>>
    /\ UNCHANGED <<aspectVars, contextVars, workflowVars, serverVars>>

\* _wait_for_ready: asyncio.sleep(0.1) is over after d; leave the wait when
\* the agent is no longer EXECUTING or the wait has lasted longer than
\* min(remaining, 10.0), else sleep again
GracefulPoll(d) ==
    /\ gs.pc = "waiting"
    /\ clock' = clock + d
    /\ LET o == gs.visits[Len(gs.visits)].agent
           remaining == gs.timeout_seconds - gs.elapsed
           timeout == IF remaining < WaitCap THEN remaining ELSE WaitCap
       IN IF inst[o].status = "EXECUTING" /\ ~(clock' - gs.wait_start > timeout)
          THEN UNCHANGED <<inst, events, cbLog, gs>>
          ELSE GsCommit(GsDestroy(GsFrame, gs.idx, clock'))
    /\ UNCHANGED <<callbacks, lcCall>>
    /\ UNCHANGED <<aspectVars, contextVars, workflowVars, serverVars>>

\* await agent.runtime.shutdown() is over after d: it returned, or it raised
\* and the exception was logged
GracefulResume(ok, d) ==
    /\ gs.pc = "awaiting"
    /\ clock' = clock + d
    /\ GsCommit(GsFinish(IF ok THEN GsFrame
                          ELSE [NoteRaise(GsFrame, "none") EXCEPT
                                  !.gs.visits[Len(gs.visits)].shutdown_raised = TRUE],
                         gs.idx, clock'))
    /\ UNCHANGED <<callbacks, lcCall>>
    /\ UNCHANGED <<aspectVars, contextVars, workflowVars, serverVars>>

\* ------------------------------------------------------------ WorkflowEngine
\* truthiness of an optional number: None and 0 are false
Truthy(x) == x # None /\ x # 0

\* _check_limits
CheckLimits(w) ==
    \/ /\ Truthy(w.manifest.max_total_cost_usd)
       /\ w.total_cost_usd > w.manifest.max_total_cost_usd
    \/ /\ Truthy(w.manifest.max_total_duration_seconds)
       /\ w.total_duration_ms > w.manifest.max_total_duration_seconds * 1000

\* the end of run: success is set and the total duration is replaced by the
\* elapsed time
WfFinish(w, elapsed) ==
    [w EXCEPT !.pc = "done",
              !.success = (w.error = NoError),
              !.total_duration_ms = elapsed]

RECURSIVE WfStartStep(_, _, _)

\* run without the test of the failed step's policy
WfAfterStepNoStop(w, step_result, elapsed) ==
    LET w1 == [w EXCEPT !.steps = Append(@, step_result),
                        !.total_cost_usd = @ + step_result.cost_usd,
                        !.total_duration_ms = @ + step_result.duration_ms]
    IN IF CheckLimits(w1)
       THEN WfFinish([w1 EXCEPT !.error = [kind |-> "ceiling", step |-> "None"]],
                     elapsed)
       ELSE WfStartStep(w1, w.i + 1, elapsed)

\* run after _execute_step has returned step_result for step i
WfAfterStep(w, step_result, elapsed) ==
    LET step == w.manifest.steps[w.i]
        w1 == [w EXCEPT !.steps = Append(@, step_result),
                        !.total_cost_usd = @ + step_result.cost_usd,
                        !.total_duration_ms = @ + step_result.duration_ms]
    IN IF CheckLimits(w1)
       THEN WfFinish([w1 EXCEPT !.error = [kind |-> "ceiling", step |-> "None"]],
                     elapsed)
       ELSE IF ~step_result.success /\ ~step_result.skipped
                 /\ step.on_failure = "stop"
            THEN WfFinish([w1 EXCEPT !.error = [kind |-> "step_failed",
                                                step |-> step.name]],
                          elapsed)
            ELSE WfStartStep(w1, w.i + 1, elapsed)

\* _execute_agent_step ignoring on_failure once the attempts are used up
WfExhaustedNeverSkipped(w, elapsed) ==
    WfAfterStep(w,
                StepResult(w.manifest.steps[w.i], FALSE, w.last_error, 0, 0,
                           FALSE, w.retries - 1, w.calls, w.throws),
                elapsed)

\* _execute_agent_step reporting the loop counter itself once the attempts are
\* used up
WfExhaustedCounterAsRetries(w, elapsed) ==
    LET step == w.manifest.steps[w.i]
    IN WfAfterStep(w,
                   StepResult(step, FALSE, w.last_error, 0, 0,
                              step.on_failure = "skip", w.retries,
                              w.calls, w.throws),
                   elapsed)

\* _execute_agent_step once the while loop is left without a return
WfExhausted(w, elapsed) ==
    LET step == w.manifest.steps[w.i]
    IN WfAfterStep(w,
                   StepResult(step, FALSE, w.last_error, 0, 0,
                              step.on_failure = "skip", w.retries - 1,
                              w.calls, w.throws),
                   elapsed)

\* the for loop of run at step i: past the last step run ends; else
\* _execute_agent_step runs up to its first call of ctx.execute
WfStartStep(w, i, elapsed) ==
    IF i > Len(w.manifest.steps)
    THEN WfFinish([w EXCEPT !.i = i], elapsed)
    ELSE LET w1 == [w EXCEPT !.i = i, !.retries = 0, !.last_error = "None",
                             !.calls = 0, !.throws = 0]
         IN IF w1.retries <= w.manifest.steps[i].retry_count
            THEN [w1 EXCEPT !.pc = "calling", !.calls = 1]
            ELSE WfExhausted(w1, elapsed)

\* run(manifest) is called
WorkflowRun ==
    /\ wf.pc = "idle"
    /\ \E spec \in WorkflowSpec, elapsed \in ElapsedMs :
          wf' = WfStartStep([IdleWorkflow EXCEPT !.manifest = spec], 1, elapsed)
    /\ UNCHANGED <<aspectVars, lifecycleVars, contextVars, shutdownVars, eng, serverVars>>

\* _execute_agent_step retrying also when ctx.execute returned a failure
WorkflowAttemptRetryReturned(out, elapsed) ==
    /\ wf.pc = "calling"
    /\ LET step == wf.manifest.steps[wf.i]
           result == ExecuteResultDict(out)
           w1 == [wf EXCEPT !.last_error = IF out = "raise" THEN "raised" ELSE "failed",
                            !.retries = @ + 1,
                            !.throws = IF out = "raise" THEN @ + 1 ELSE @]
       IN IF out = "ok"
          THEN wf' = WfAfterStep(wf,
                                 StepResult(step, TRUE, "None", result.cost_usd,
                                            result.duration_ms, FALSE, wf.retries,
                                            wf.calls, wf.throws),
                                 elapsed)
          ELSE IF w1.retries <= step.retry_count
               THEN wf' = [w1 EXCEPT !.pc = "backoff"]
               ELSE wf' = WfExhausted(w1, elapsed)
    /\ UNCHANGED <<aspectVars, lifecycleVars, contextVars, shutdownVars, eng, serverVars>>

\* await self._ctx.execute(...) is over: it returned a dict (the step result
\* is built from it and run goes on) or it raised (the retry count goes up;
\* a sleep follows if attempts remain)
WorkflowAttempt(out, elapsed) ==
    /\ wf.pc = "calling"
    /\ LET step == wf.manifest.steps[wf.i]
           result == ExecuteResultDict(out)
       IN IF out # "raise"
          THEN wf' = WfAfterStep(wf,
                                 StepResult(step, result.success, result.error,
                                            result.cost_usd, result.duration_ms,
                                            FALSE, wf.retries, wf.calls,
                                            wf.throws),
                                 elapsed)
          ELSE LET w1 == [wf EXCEPT !.last_error = "raised", !.retries = @ + 1,
                                    !.throws = @ + 1]
               IN IF w1.retries <= step.retry_count
                  THEN wf' = [w1 EXCEPT !.pc = "backoff"]
                  ELSE wf' = WfExhausted(w1, elapsed)
    /\ UNCHANGED <<aspectVars, lifecycleVars, contextVars, shutdownVars, eng, serverVars>>

\* await asyncio.sleep(0.1 * retries) is over: the next attempt is made
WorkflowBackoff ==
    /\ wf.pc = "backoff"
    /\ wf' = [wf EXCEPT !.pc = "calling", !.calls = @ + 1]
    /\ UNCHANGED <<aspectVars, lifecycleVars, contextVars, shutdownVars, eng, serverVars>>

\* ------------------------------------------- WorkflowEngine over step trees
\* the loop of _evaluate_condition from part k on
RECURSIVE EvaluateParts(_, _, _)
EvaluateParts(parts, k, current) ==
    IF k > Len(parts)
    THEN Bool(current)
    ELSE IF current.kind # "dict"
         THEN FALSE
         ELSE LET next == Get(current, parts[k])
              IN IF next.kind = "none"
                 THEN FALSE
                 ELSE EvaluateParts(parts, k + 1, next)

\* _evaluate_condition
EvaluateCondition(condition, context) ==
    EvaluateParts(Split(condition, Dot), 1, context)

\* _find_step
RECURSIVE FindStep(_, _)
FindStep(name, steps) ==
    IF steps = <<>>
    THEN NoStep
    ELSE LET step == Head(steps)
             found == IF step.steps # <<>> THEN FindStep(name, step.steps)
                      ELSE NoStep
         IN IF step.name = name
            THEN step
            ELSE IF found # NoStep THEN found ELSE FindStep(name, Tail(steps))

\* "; ".join(errors), None when there are none
RECURSIVE Join(_)
Join(errors) ==
    IF errors = <<>> THEN <<>>
    ELSE IF Len(errors) = 1 THEN errors[1]
    ELSE errors[1] \o <<";">> \o Join(Tail(errors))

\* the entry made in the context for a step's outcome
Outcome(step_result) ==
    DictValue([k \in {<<"success">>, <<"error">>} |->
                  IF k = <<"success">> THEN BoolValue(step_result.success)
                  ELSE StrValue(step_result.error)])

\* the end of run over a tree
EngFinish(E) ==
    [E EXCEPT !.pc = "done",
              !.frames = <<>>,
              !.success = (E.error = NoError),
              !.total_duration_ms = E.elapsed]

RECURSIVE EngStart(_, _, _, _, _, _)
RECURSIVE EngDeliver(_, _, _, _)
RECURSIVE EngAggregate(_, _, _, _)

\* the for loop of run at step i of the tree
EngStartStep(E, i) ==
    IF i > Len(E.manifest.steps)
    THEN EngFinish([E EXCEPT !.i = i])
    ELSE EngStart([E EXCEPT !.i = i, !.frames = <<>>], E.manifest.steps[i],
                  0, 1, 1, 0)

\* run keeping the cost of the latest step only
EngAfterStepLatestCostOnly(E, step_result) ==
    LET step == E.manifest.steps[E.i]
        E1 == [E EXCEPT !.steps = Append(@, step_result),
                        !.total_cost_usd = step_result.cost_usd,
                        !.total_duration_ms = @ + step_result.duration_ms,
                        !.checked_duration_ms =
                            E.total_duration_ms + step_result.duration_ms,
                        !.context = Put(@, StepsKey(step.name),
                                        Outcome(step_result))]
    IN IF CheckLimits(E1)
       THEN EngFinish([E1 EXCEPT !.error = [kind |-> "ceiling", step |-> "None"]])
       ELSE IF ~step_result.success /\ ~step_result.skipped
                 /\ step.on_failure = "stop"
            THEN EngFinish([E1 EXCEPT !.error = [kind |-> "step_failed",
                                                 step |-> step.name]])
            ELSE EngStartStep(E1, E.i + 1)

\* run after _execute_step has returned step_result for step i of the tree
EngAfterStep(E, step_result) ==
    LET step == E.manifest.steps[E.i]
        E1 == [E EXCEPT !.steps = Append(@, step_result),
                        !.total_cost_usd = @ + step_result.cost_usd,
                        !.total_duration_ms = @ + step_result.duration_ms,
                        !.checked_duration_ms =
                            E.total_duration_ms + step_result.duration_ms,
                        !.context = Put(@, StepsKey(step.name),
                                        Outcome(step_result))]
    IN IF CheckLimits(E1)
       THEN EngFinish([E1 EXCEPT !.error = [kind |-> "ceiling", step |-> "None"]])
       ELSE IF ~step_result.success /\ ~step_result.skipped
                 /\ step.on_failure = "stop"
            THEN EngFinish([E1 EXCEPT !.error = [kind |-> "step_failed",
                                                 step |-> step.name]])
            ELSE EngStartStep(E1, E.i + 1)

\* _execute_parallel_step leaving the sub-steps' results out of wf_result.steps
EngAggregateOwnResultOnly(E, f, k, acc) ==
    LET F == E.frames[f]
    IN IF k > Len(F.sub_results)
       THEN EngDeliver([E EXCEPT !.frames[f].pc = "done"], F.parent, F.slot,
                       TreeResult(F.step, acc.all_success, Join(acc.errors),
                                  acc.total_cost, acc.total_duration, FALSE, 0))
       ELSE LET sub_result == F.sub_results[k]
                failed == ~sub_result.success /\ ~sub_result.skipped
            IN IF sub_result.type = "exception"
               THEN EngAggregate(E, f, k + 1,
                                 [acc EXCEPT !.all_success = FALSE,
                                             !.errors = Append(@, sub_result.error)])
               ELSE EngAggregate(
                   [E EXCEPT !.context = Put(@, StepsKey(sub_result.name),
                                             Outcome(sub_result))],
                   f, k + 1,
                   [total_cost |-> acc.total_cost + sub_result.cost_usd,
                    total_duration |->
                        IF sub_result.duration_ms > acc.total_duration
                        THEN sub_result.duration_ms ELSE acc.total_duration,
                    all_success |-> acc.all_success /\ ~failed,
                    errors |-> IF failed /\ sub_result.error # <<>>
                               THEN Append(acc.errors, sub_result.error)
                               ELSE acc.errors])

\* _execute_parallel_step adding the sub-steps' durations up
EngAggregateAddsDurations(E, f, k, acc) ==
    LET F == E.frames[f]
    IN IF k > Len(F.sub_results)
       THEN EngDeliver([E EXCEPT !.frames[f].pc = "done"], F.parent, F.slot,
                       TreeResult(F.step, acc.all_success, Join(acc.errors),
                                  acc.total_cost, acc.total_duration, FALSE, 0))
       ELSE LET sub_result == F.sub_results[k]
                failed == ~sub_result.success /\ ~sub_result.skipped
            IN IF sub_result.type = "exception"
               THEN EngAggregate(E, f, k + 1,
                                 [acc EXCEPT !.all_success = FALSE,
                                             !.errors = Append(@, sub_result.error)])
               ELSE EngAggregate(
                   [E EXCEPT !.steps = Append(@, sub_result),
                             !.context = Put(@, StepsKey(sub_result.name),
                                             Outcome(sub_result))],
                   f, k + 1,
                   [total_cost |-> acc.total_cost + sub_result.cost_usd,
                    total_duration |-> acc.total_duration + sub_result.duration_ms,
                    all_success |-> acc.all_success /\ ~failed,
                    errors |-> IF failed /\ sub_result.error # <<>>
                               THEN Append(acc.errors, sub_result.error)
                               ELSE acc.errors])

\* the loop of _execute_parallel_step over sub_results from k on, and the
\* return of the group's own result
EngAggregate(E, f, k, acc) ==
    LET F == E.frames[f]
    IN IF k > Len(F.sub_results)
       THEN EngDeliver([E EXCEPT !.frames[f].pc = "done"], F.parent, F.slot,
                       TreeResult(F.step, acc.all_success, Join(acc.errors),
                                  acc.total_cost, acc.total_duration, FALSE, 0))
       ELSE LET sub_result == F.sub_results[k]
                failed == ~sub_result.success /\ ~sub_result.skipped
            IN IF sub_result.type = "exception"
               THEN EngAggregate(E, f, k + 1,
                                 [acc EXCEPT !.all_success = FALSE,
                                             !.errors = Append(@, sub_result.error)])
               ELSE EngAggregate(
                   [E EXCEPT !.steps = Append(@, sub_result),
                             !.context = Put(@, StepsKey(sub_result.name),
                                             Outcome(sub_result))],
                   f, k + 1,
                   [total_cost |-> acc.total_cost + sub_result.cost_usd,
                    total_duration |->
                        IF sub_result.duration_ms > acc.total_duration
                        THEN sub_result.duration_ms ELSE acc.total_duration,
                    all_success |-> acc.all_success /\ ~failed,
                    errors |-> IF failed /\ sub_result.error # <<>>
                               THEN Append(acc.errors, sub_result.error)
                               ELSE acc.errors])

\* a coroutine of _execute_step returns result to the one awaiting it: run,
\* or the gather of a parallel group, which goes on once all its tasks are done
EngDeliver(E, parent, slot, result) ==
    IF parent = 0
    THEN IF result.type = "exception"
         THEN \* except Exception as e: in run
              EngFinish([E EXCEPT !.error = [kind |-> "exception", step |-> "None"]])
         ELSE EngAfterStep(E, result)
    ELSE LET F == E.frames[parent]
             E1 == [E EXCEPT !.frames[parent].sub_results[slot] = result,
                             !.frames[parent].done = @ \cup {slot}]
         IN IF E1.frames[parent].done = 1..Len(F.step.steps)
            THEN EngAggregate(E1, parent, 1,
                              [total_cost |-> 0, total_duration |-> 0,
                               all_success |-> TRUE, errors |-> <<>>])
            ELSE E1

\* the target _execute_condition_step selects
EngConditionTarget(E, step) ==
    IF EvaluateCondition(step.condition, E.context) THEN step.if_true
    ELSE step.if_false

\* the frames with the coroutine fr put at its place: a new place at the
\* end, or the place of the task it runs in
WithFrame(frames, self, fr) ==
    IF self = 0 THEN Append(frames, fr) ELSE [frames EXCEPT ![self] = fr]

\* the coroutine at self, if it is a task, is over
Ended(E, self) ==
    IF self = 0 THEN E ELSE [E EXCEPT !.frames[self].pc = "done"]

\* _execute_step for step, awaited by parent at slot, up to its first await;
\* depth counts the _execute_step calls nested on this coroutine's stack, and
\* self is the place of the task the call runs in (0: in run itself or in a
\* coroutine run awaits)
EngStart(E, step, parent, slot, depth, self) ==
    CASE depth > MaxDepth ->
           \* RecursionError leaves the coroutine
           EngDeliver(Ended(E, self), parent, slot,
                      ExceptionResult(<<"RecursionError">>))
      [] depth <= MaxDepth /\ step.type = "agent" ->
           [E EXCEPT !.frames = WithFrame(@, self,
                                          [Frame(step, parent, slot) EXCEPT
                                              !.pc = "calling", !.calls = 1]),
                     !.invoked = Append(@, step.name)]
      [] depth <= MaxDepth /\ step.type = "parallel" ->
           IF step.steps = <<>>
           THEN EngDeliver(Ended(E, self), parent, slot,
                           TreeResult(step, TRUE, <<>>, 0, 0, TRUE, 0))
           ELSE \* the tasks asyncio.gather makes of the sub-steps' coroutines,
                \* in the order of step.steps; none of them has run yet
                LET g == IF self = 0 THEN Len(E.frames) + 1 ELSE self
                    group == [Frame(step, parent, slot) EXCEPT
                                 !.pc = "gather",
                                 !.sub_results =
                                     [k \in 1..Len(step.steps) |->
                                         TreeResult(NoStep, FALSE, <<>>, 0, 0,
                                                    FALSE, 0)]]
                IN [E EXCEPT !.frames =
                       WithFrame(@, self, group)
                          \o [k \in 1..Len(step.steps) |->
                                 Frame(step.steps[k], g, k)]]
      [] depth <= MaxDepth /\ step.type = "condition" ->
           IF step.condition = <<>>
           THEN EngDeliver(Ended(E, self), parent, slot,
                           TreeResult(step, FALSE, <<"condition">>, 0, 0, FALSE, 0))
           ELSE LET target == EngConditionTarget(E, step)
                    target_step == FindStep(target, E.manifest.steps)
                IN IF target = "None"
                   THEN EngDeliver(Ended(E, self), parent, slot,
                                   TreeResult(step, TRUE, <<>>, 0, 0, TRUE, 0))
                   ELSE IF target_step = NoStep
                        THEN EngDeliver(Ended(E, self), parent, slot,
                                        TreeResult(step, FALSE, <<"target">>,
                                                   0, 0, FALSE, 0))
                        ELSE EngStart(E, target_step, parent, slot, depth + 1, self)

\* run(manifest) is called on a manifest whose steps form a tree
EngineRun ==
    /\ eng.pc = "idle"
    /\ \E spec \in TreeSpecs, elapsed \in ElapsedMs :
          eng' = EngStartStep([IdleEngine EXCEPT !.pc = "running",
                                                 !.manifest = spec,
                                                 !.context = spec.context,
                                                 !.elapsed = elapsed], 1)
    /\ UNCHANGED <<aspectVars, lifecycleVars, contextVars, shutdownVars, wf, serverVars>>

\* the event loop runs the task that has waited longest to start, up to its
\* first await
EngineTaskStart ==
    /\ eng.pc = "running"
    /\ \E f \in 1..Len(eng.frames) :
          /\ eng.frames[f].pc = "new"
          /\ \A h \in 1..(f - 1) : eng.frames[h].pc # "new"
          /\ LET F == eng.frames[f]
                 E == EngStart(eng, F.step, F.parent, F.slot, 1, f)
             IN /\ Len(E.frames) <= MaxCoroutines
                /\ eng' = E
    /\ UNCHANGED <<aspectVars, lifecycleVars, contextVars, shutdownVars, wf, serverVars>>

\* the engine after the attempt of the coroutine f ended with out, the clock
\* of the run at elapsed: the step result returned to the awaiting coroutine,
\* or the next backoff
EngAttempt(E0, f, out, elapsed) ==
    LET F == E0.frames[f]
        step == F.step
        result == TreeResultDict(out)
        E == [E0 EXCEPT !.elapsed = elapsed]
    IN IF out # "raise"
       THEN EngDeliver([E EXCEPT !.frames[f].pc = "done"],
                       F.parent, F.slot,
                       TreeResult(step, result.success, result.error,
                                  result.cost_usd, result.duration_ms,
                                  FALSE, F.retries))
       ELSE LET retries == F.retries + 1
                E1 == [E EXCEPT !.frames[f].retries = retries,
                                !.frames[f].last_error = <<"raised">>]
            IN IF retries <= step.retry_count
               THEN [E1 EXCEPT !.frames[f].pc = "backoff"]
               ELSE EngDeliver([E1 EXCEPT !.frames[f].pc = "done"],
                               F.parent, F.slot,
                               TreeResult(step, FALSE, <<"raised">>, 0, 0,
                                          step.on_failure = "skip",
                                          retries - 1))

\* await self._ctx.execute(...) of the coroutine f is over: it returned a dict
\* (the step result is built from it and returned to the awaiting coroutine)
\* or it raised (the retry count goes up; a sleep follows if attempts remain,
\* else the failed or skipped result is returned)
EngineAttempt(f, out, elapsed) ==
    /\ eng.pc = "running"
    /\ f \in 1..Len(eng.frames)
    /\ eng.frames[f].pc = "calling"
    /\ eng' = EngAttempt(eng, f, out, elapsed)
    /\ UNCHANGED <<aspectVars, lifecycleVars, contextVars, shutdownVars, wf, serverVars>>

\* await asyncio.sleep(0.1 * retries) of the coroutine f is over: the next
\* attempt is made
EngineBackoff(f) ==
    /\ eng.pc = "running"
    /\ f \in 1..Len(eng.frames)
    /\ eng.frames[f].pc = "backoff"
    /\ eng' = [eng EXCEPT !.frames[f].pc = "calling",
                          !.frames[f].calls = @ + 1,
                          !.invoked = Append(@, eng.frames[f].step.name)]
    /\ UNCHANGED <<aspectVars, lifecycleVars, contextVars, shutdownVars, wf, serverVars>>

\* ---------------------------------------------------------- ConnectionManager
\* a WebSocket of the server, by number: not yet accepted (new), in the
\* receive loop of websocket_events with its client there (open), its client
\* gone and the handler not yet told (lost), the handler over (closed)
WebSockets == 1..MaxConnections

\* one call of broadcast: the position of the list iterator (i), the
\* connection being sent to (ws), the list dead, and whether the call raised
IdleBroadcast ==
    [pc |-> "idle", i |-> 0, ws |-> 0, dead |-> <<>>, raised |-> "none"]

\* ConnectionManager() with no client yet: _connections, the sockets, for each
\* socket how often it was taken off the list and how its handler ended, and
\* the broadcast calls
IdleServer ==
    [connections |-> <<>>,
     socket |-> [w \in WebSockets |-> "new"],
     removals |-> [w \in WebSockets |-> 0],
     handler |-> [w \in WebSockets |-> "none"],
     bc |-> [b \in 1..MaxBroadcasts |-> IdleBroadcast]]

\* ws in self._connections
Connected(connections, w) ==
    \E k \in 1..Len(connections) : connections[k] = w

\* self._connections.remove(ws) on a list that holds ws: the list without the
\* first ws
RECURSIVE ListRemove(_, _)
ListRemove(connections, w) ==
    IF connections = <<>> THEN <<>>
    ELSE IF connections[1] = w THEN Tail(connections)
         ELSE <<connections[1]>> \o ListRemove(Tail(connections), w)

\* the second loop of broadcast from dead[k] on: each remove raises ValueError
\* when the connection is no longer in the list
RECURSIVE BroadcastRemoveDead(_, _, _)
BroadcastRemoveDead(C, b, k) ==
    IF k > Len(C.bc[b].dead)
    THEN [C EXCEPT !.bc[b].pc = "done"]
    ELSE LET w == C.bc[b].dead[k]
         IN IF ~Connected(C.connections, w)
            THEN [C EXCEPT !.bc[b].pc = "done", !.bc[b].raised = "ValueError"]
            ELSE BroadcastRemoveDead(
                     [C EXCEPT !.connections = ListRemove(@, w),
                               !.removals[w] = @ + 1],
                     b, k + 1)

\* the first loop of broadcast goes on: the list iterator hands out the next
\* connection of the list as it is now, or the loop is over
BroadcastNext(C, b) ==
    LET i == C.bc[b].i
    IN IF i < Len(C.connections)
       THEN [C EXCEPT !.bc[b].pc = "sending", !.bc[b].i = i + 1,
                      !.bc[b].ws = C.connections[i + 1]]
       ELSE BroadcastRemoveDead(C, b, 1)

\* websocket_events: await manager.connect(ws) is over, the socket accepted
\* and appended
Connect(w) ==
    /\ cm.socket[w] = "new"
    /\ cm' = [cm EXCEPT !.socket[w] = "open", !.connections = Append(@, w)]
    /\ UNCHANGED <<aspectVars, lifecycleVars, contextVars, shutdownVars, workflowVars>>

\* the client of an accepted socket goes away
ClientGone(w) ==
    /\ cm.socket[w] = "open"
    /\ cm' = [cm EXCEPT !.socket[w] = "lost"]
    /\ UNCHANGED <<aspectVars, lifecycleVars, contextVars, shutdownVars, workflowVars>>

\* websocket_events: receive_text raises WebSocketDisconnect and the handler
\* calls manager.disconnect(ws)
Disconnect(w) ==
    /\ cm.socket[w] = "lost"
    /\ IF Connected(cm.connections, w)
       THEN cm' = [cm EXCEPT !.socket[w] = "closed",
                             !.connections = ListRemove(@, w),
                             !.removals[w] = @ + 1,
                             !.handler[w] = "returned"]
       ELSE cm' = [cm EXCEPT !.socket[w] = "closed",
                             !.handler[w] = "ValueError"]
    /\ UNCHANGED <<aspectVars, lifecycleVars, contextVars, shutdownVars, workflowVars>>

\* broadcast(data) is called
Broadcast(b) ==
    /\ cm.bc[b].pc = "idle"
    /\ \A c \in 1..(b - 1) : cm.bc[c].pc # "idle"
    /\ cm' = BroadcastNext(cm, b)
    /\ UNCHANGED <<aspectVars, lifecycleVars, contextVars, shutdownVars, workflowVars>>

\* await ws.send_json(data) is over: it returned, or it raised because the
\* client is gone and the connection is put on the list dead
BroadcastSent(b) ==
    /\ cm.bc[b].pc = "sending"
    /\ LET w == cm.bc[b].ws
       IN cm' = BroadcastNext(IF cm.socket[w] = "open"
                              THEN cm
                              ELSE [cm EXCEPT !.bc[b].dead = Append(@, w)],
                              b)
    /\ UNCHANGED <<aspectVars, lifecycleVars, contextVars, shutdownVars, workflowVars>>

\* ------------------------------------------------------------ specification
Init ==
    /\ handlers = <<>>
    /\ lastApply = NoApply
    /\ inst = InitialInstances
    /\ events = <<>>
    /\ callbacks = <<>>
    /\ cbLog = <<>>
    /\ lcCall = NoCall
    /\ agents = [n \in Names |-> CHOOSE o \in 1..Len(InitialInstances) :
                                    InitialInstances[o].name = n]
    /\ tasks = [t \in 1..MaxTasks |-> IdleTask]
    /\ tx_counter = 0
    /\ rtCalls = 0
    /\ shut = IdleShutdown
    /\ started = TRUE
    /\ executions = [t \in 1..MaxTasks |-> "none"]
    /\ lastCancel = "none"
    /\ gs = IdleGraceful
    /\ clock = 0
    /\ wf = IdleWorkflow
    /\ eng = IdleEngine
    /\ cm = IdleServer

\* another caller of the manager reports an error on the handle whose
\* runtime graceful_shutdown is shutting down
ReportError ==
    /\ gs.pc = "awaiting"
    /\ Transition(gs.visits[Len(gs.visits)].agent, "ERROR", "crash")

\* a LifecycleManager over handles of any status, as graceful_shutdown may be
\* handed them
InitShutdown ==
    /\ handlers = <<>>
    /\ lastApply = NoApply
    /\ \E h1 \in ShutdownHandles("a1", {0, 1}), h2 \in ShutdownHandles("a2", {2}),
          h3 \in ShutdownHandles("a3", {0}) : inst = <<h1, h2, h3>>
    /\ events = <<>>
    /\ callbacks = <<>>
    /\ cbLog = <<>>
    /\ lcCall = NoCall
    /\ agents = [n \in Names |-> CHOOSE o \in 1..Len(NameOrder) : NameOrder[o] = n]
    /\ tasks = [t \in 1..MaxTasks |-> IdleTask]
    /\ tx_counter = 0
    /\ rtCalls = 0
    /\ shut = IdleShutdown
    /\ started = TRUE
    /\ executions = [t \in 1..MaxTasks |-> "none"]
    /\ lastCancel = "none"
    /\ gs = IdleGraceful
    /\ clock = 0
    /\ wf = IdleWorkflow
    /\ eng = IdleEngine
    /\ cm = IdleServer

NextAspect ==
    \/ \E m \in Manifests : Register(m)
    \/ \E k \in DispatchKinds, a \in CtxAgents : Apply(k, a)

SpecAspect == Init /\ [][NextAspect]_vars

NextLifecycle ==
    \/ \E raises \in BOOLEAN : AddCallback(raises)
    \/ \E o \in 1..Len(inst), t \in AgentStatus :
          \E e \in TransitionErrors(t) : Transition(o, t, e)

SpecLifecycle == Init /\ [][NextLifecycle]_vars

\* one handle going to and fro between READY and EXECUTING for as long as it
\* takes to fill the history, with refused calls in between
NextHistory ==
    \E new_status \in {"READY", "EXECUTING"} : TransitionCall(1, new_status, "none")

SpecHistory == Init /\ [][NextHistory]_vars

NextContext ==
    \/ \E t \in 1..MaxTasks, n \in CallNames : ExecStart(t, n)
    \/ \E t \in 1..MaxTasks, created \in BOOLEAN : ExecCreated(t, created)
    \/ \E t \in 1..MaxTasks, out \in RuntimeOutcomes : ExecReturn(t, out)
    \/ ShutdownStart
    \/ \E ok \in BOOLEAN : ShutdownResume(ok)

SpecContext == Init /\ [][NextContext]_vars

\* graceful_shutdown, with one execute call going on beside it and with
\* another caller of the manager reporting an error on the handle whose
\* runtime is being shut down
NextShutdown ==
    \/ \E timeout_seconds \in Timeouts : GracefulStart(timeout_seconds)
    \/ \E d \in Delays : GracefulPoll(d)
    \/ \E ok \in BOOLEAN, d \in Delays : GracefulResume(ok, d)
    \/ \E n \in Names : ExecStart(1, n)
    \/ \E out \in {"ok", "raise"} : ExecReturn(1, out)
    \/ ReportError

SpecShutdown == InitShutdown /\ [][NextShutdown]_vars

NextWorkflow ==
    \/ WorkflowRun
    \/ \E out \in AttemptOutcomes, elapsed \in ElapsedMs : WorkflowAttempt(out, elapsed)
    \/ WorkflowBackoff

SpecWorkflow == Init /\ [][NextWorkflow]_vars

\* run over a tree of steps
NextTree ==
    \/ EngineRun
    \/ EngineTaskStart
    \/ \E f \in 1..MaxCoroutines, out \in TreeOutcomes, elapsed \in ElapsedMs :
          EngineAttempt(f, out, elapsed)
    \/ \E f \in 1..MaxCoroutines : EngineBackoff(f)

SpecTree == Init /\ [][NextTree]_vars

\* run over a tree of steps when the event loop runs every task that is ready
SpecTreeFair == SpecTree /\ WF_vars(EngineTaskStart)

NextAsync ==
    \/ \E t \in 1..MaxTasks, n \in CallNames : ExecuteAsync(t, n)
    \/ \E t \in 1..MaxTasks, created \in BOOLEAN : AsyncCreated(t, created)
    \/ \E t \in 1..MaxTasks, out \in RuntimeOutcomes : AsyncFinish(t, out)
    \/ \E t \in 1..MaxTasks : CancelExecution(t)

SpecAsync == Init /\ [][NextAsync]_vars

\* the asynchronous executions when every runtime call that is under way ends
\* and the event loop then runs the background task that awaited it
SpecAsyncFair ==
    /\ SpecAsync
    /\ \A t \in 1..MaxTasks :
          WF_vars(\E out \in RuntimeOutcomes : AsyncFinish(t, out))

\* clients coming and going while events are broadcast
NextServer ==
    \/ \E w \in WebSockets : Connect(w)
    \/ \E w \in WebSockets : ClientGone(w)
    \/ \E w \in WebSockets : Disconnect(w)
    \/ \E b \in 1..MaxBroadcasts : Broadcast(b)
    \/ \E b \in 1..MaxBroadcasts : BroadcastSent(b)

SpecServer == Init /\ [][NextServer]_vars

\* ================================================================ properties
Range(f) == {f[i] : i \in DOMAIN f}

\* the handler registered as number reg
HandlerOf(reg) == CHOOSE h \in Range(handlers) : h.reg = reg

\* the pointcut rule of section 4.1: each set is empty or contains the value
Pointcut(h, kind, agent) ==
    /\ (h.events = {} \/ kind \in h.events)
    /\ (h.agents = {} \/ agent \in h.agents)

Applied == lastApply.kind # "none"

\* C1: a matching handler that raises never keeps a later matching handler
\* (later in the list apply walks) from being called for the same event, and no
\* exception leaves apply.
C1_RaisingHandlerIsolated ==
    Applied =>
        /\ ~lastApply.raised
        /\ \A i, j \in 1..Len(handlers) :
              ( /\ i < j
                /\ handlers[i].raises
                /\ Pointcut(handlers[i], lastApply.kind, lastApply.agent)
                /\ Pointcut(handlers[j], lastApply.kind, lastApply.agent) )
              => handlers[j].reg \in Range(lastApply.invoked)

\* a raising handler was called and a handler behind it was called after it
C1_Witness ==
    /\ Applied
    /\ \E i, j \in 1..Len(lastApply.invoked) :
          /\ i < j
          /\ HandlerOf(lastApply.invoked[i]).raises
          /\ lastApply.invoked[i] \in Range(lastApply.errors)
          /\ ~HandlerOf(lastApply.invoked[j]).raises

\* C2: apply calls the matching handlers in non-decreasing order number, and
\* handlers with equal order numbers in the order they were registered.
C2_AscendingOrderTiesByRegistration ==
    Applied =>
        \A i, j \in 1..Len(lastApply.invoked) :
            i < j =>
                LET hi == HandlerOf(lastApply.invoked[i])
                    hj == HandlerOf(lastApply.invoked[j])
                IN /\ hi.order <= hj.order
                   /\ (hi.order = hj.order => hi.reg < hj.reg)

\* three handlers were called: two of equal order, and one that was registered
\* after another one yet called before it
C2_Witness ==
    /\ Applied
    /\ Len(lastApply.invoked) = 3
    /\ \E i, j \in 1..3 :
          /\ i < j
          /\ HandlerOf(lastApply.invoked[i]).order
                = HandlerOf(lastApply.invoked[j]).order
    /\ \E i, j \in 1..3 : i < j /\ lastApply.invoked[i] > lastApply.invoked[j]

TransitionTable ==
    { <<"REGISTERED", "INITIALIZING">>, <<"REGISTERED", "LAZY">>,
      <<"LAZY", "INITIALIZING">>,
      <<"INITIALIZING", "READY">>, <<"INITIALIZING", "ERROR">>,
      <<"READY", "EXECUTING">>, <<"READY", "DESTROYING">>, <<"READY", "ERROR">>,
      <<"EXECUTING", "READY">>, <<"EXECUTING", "ERROR">>,
      <<"EXECUTING", "DESTROYING">>,
      <<"ERROR", "INITIALIZING">>, <<"ERROR", "DESTROYING">>,
      <<"DESTROYING", "DESTROYED">>, <<"DESTROYING", "ERROR">> }

\* C4: a transition call whose (current status, target) pair is not in the
\* table fails with ValueError and changes neither the handle's status nor the
\* history nor the callback invocations; a call whose pair is in the table
\* succeeds and sets the status to the target.
C4_TransitionFollowsTable ==
    [][ \A o \in 1..Len(inst), t \in AgentStatus :
          \A e \in TransitionErrors(t) :
            Transition(o, t, e) =>
                IF <<inst[o].status, t>> \in TransitionTable
                THEN /\ lcCall'.raised = "none"
                     /\ inst'[o].status = t
                ELSE /\ lcCall'.raised = "ValueError"
                     /\ inst' = inst
                     /\ events' = events
                     /\ cbLog' = cbLog ]_vars

\* a transition was refused on a destroyed handle while the manager held a
\* history and a callback
C4_Witness ==
    /\ lcCall = [op |-> "transition", raised |-> "ValueError"]
    /\ \E o \in 1..Len(inst) : inst[o].status = "DESTROYED"
    /\ events # <<>>
    /\ callbacks # <<>>
    /\ cbLog # <<>>

\* C5: every change of a handle's status, by whatever operation, is a pair of
\* the transition table; in particular no handle leaves DESTROYED.
C5_EveryStatusChangeInTable ==
    [][ \A o \in 1..Len(inst) :
          inst'[o].status # inst[o].status
              => <<inst[o].status, inst'[o].status>> \in TransitionTable ]_vars

\* C6: when the runtime call of a synchronous execute is over, the handle is
\* READY if the call returned and ERROR if it raised.
C6_ReadyOrErrorAfterRuntimeCall ==
    [][ \A t \in 1..MaxTasks :
          ( /\ tasks[t].mode = "sync"
            /\ tasks[t].pc = "running"
            /\ tasks'[t].pc = "done" )
          => inst'[tasks[t].agent].status
                = IF tasks'[t].rt = "raise" THEN "ERROR" ELSE "READY" ]_vars

\* C7: a synchronous execute whose runtime call reported an error or raised
\* returns a result with success=false and the error set; it does not raise.
C7_InvocationFailureIsReturned ==
    \A t \in 1..MaxTasks :
        (tasks[t].mode = "sync" /\ tasks[t].rt \in {"error", "raise"})
            => tasks[t].outcome = "returned_error"

\* C8: a synchronous invocation dispatches its pre-invocation event before the
\* handle becomes EXECUTING and the runtime is called (and its post-invocation
\* event afterwards): once a runtime call has been made, the pipeline has
\* dispatched an event.
C8_InvocationDispatchesEvents ==
    \A t \in 1..MaxTasks :
        (tasks[t].mode = "sync" /\ (tasks[t].pc = "running" \/ tasks[t].rt # "none"))
            => /\ lastApply.kind \in {"PreQuery", "PostQuery", "OnError"}
               /\ lastApply.agent \in Names

\* C9: execute on an unknown name fails with KeyError and on a handle without
\* a runtime with RuntimeError; the call then ends at once and changes no
\* handle, no counter and no transaction number, and calls no runtime.
C9_NotFoundAndUnboundChangeNothing ==
    [][ \A t \in 1..MaxTasks :
          ( /\ tasks[t].pc = "idle"
            /\ tasks'[t].pc # "idle"
            /\ tasks'[t].mode = "sync" )
          => LET n == tasks'[t].name
                 unknown == n \notin DOMAIN agents
                 unbound == /\ ~unknown
                            /\ inst[agents[n]].runtime = 0
                            /\ inst[agents[n]].status # "LAZY"
             IN /\ unknown => tasks'[t].outcome = "KeyError"
                /\ unbound => tasks'[t].outcome = "RuntimeError"
                /\ (unknown \/ unbound)
                      => /\ tasks'[t].pc = "done"
                         /\ inst' = inst
                         /\ agents' = agents
                         /\ tx_counter' = tx_counter
                         /\ rtCalls' = rtCalls ]_vars

\* one call ended with KeyError and another with RuntimeError
C9_Witness ==
    \E t, u \in 1..MaxTasks :
        /\ tasks[t].mode = "sync" /\ tasks[t].outcome = "KeyError"
        /\ tasks[u].mode = "sync" /\ tasks[u].outcome = "RuntimeError"
        /\ inst[agents[tasks[u].name]].runtime = 0

\* C10: a record's status only moves from running to completed, error or
\* cancelled, and a record in one of these three never changes again.
C10_RecordStatusOnlyAdvances ==
    [][ \A t \in 1..MaxTasks :
          executions'[t] # executions[t]
              => \/ executions[t] = "none" /\ executions'[t] = "running"
                 \/ /\ executions[t] = "running"
                    /\ executions'[t] \in {"completed", "error", "cancelled"} ]_vars

\* one execution was cancelled in flight, another ran to its end, and a later
\* cancel found its record already terminal
C10_Witness ==
    /\ \E t, u \in 1..MaxTasks :
          /\ executions[t] = "cancelled"
          /\ tasks[t].outcome = "cancelled"
          /\ executions[u] \in {"completed", "error"}
    /\ lastCancel = "false"

\* C11: cancel on a running record cancels the background task, marks the
\* record cancelled and returns true; cancel on a completed, error or
\* cancelled record returns false and leaves the record (and the task) as
\* they are.
C11_CancelOnlyActsOnRunning ==
    [][ \A t \in 1..MaxTasks :
          CancelExecution(t)
          => /\ executions[t] = "running"
                  => /\ executions' = [executions EXCEPT ![t] = "cancelled"]
                     /\ tasks'[t].pc = "done"
                     /\ tasks'[t].outcome = "cancelled"
                     /\ lastCancel' = "true"
             /\ executions[t] \in {"completed", "error", "cancelled"}
                  => /\ executions' = executions
                     /\ tasks' = tasks
                     /\ lastCancel' = "false" ]_vars

\* an execution was cancelled in flight and a second cancel of it came back
\* false
C11_Witness ==
    /\ lastCancel = "false"
    /\ \E t \in 1..MaxTasks :
          /\ executions[t] = "cancelled"
          /\ tasks[t].outcome = "cancelled"
          /\ \A u \in 1..MaxTasks : u # t => executions[u] = "none"

\* C12: execute_async returns while the runtime call is still under way, and
\* a record in status running then exists; once the runtime call of an
\* execution that was not cancelled is over its record is completed or error,
\* and a running record does not stay running for ever.
C12_RecordRunningThenFinished ==
    /\ [](\A t \in 1..MaxTasks :
            tasks[t].mode = "async"
            => /\ tasks[t].pc = "running"
                    => executions[t] = "running" /\ tasks[t].rt = "none"
               /\ (tasks[t].pc = "done" /\ tasks[t].rt # "none")
                    => executions[t] \in {"completed", "error"}
               /\ executions[t] = "running" => tasks[t].pc = "running")
    /\ \A t \in 1..MaxTasks :
          (executions[t] = "running") ~> (executions[t] # "running")

\* one execution has run to its end while another is still under way
C12_Witness ==
    \E t, u \in 1..MaxTasks :
        /\ tasks[t].mode = "async" /\ tasks[t].rt # "none"
        /\ executions[t] \in {"completed", "error"}
        /\ tasks[u].mode = "async" /\ tasks[u].pc = "running"
        /\ executions[u] = "running"

\* C13: a handle that is LAZY, DESTROYED or DESTROYING when the loop of
\* graceful_shutdown reaches it keeps its status, gets no transition event and
\* no call of its runtime's shutdown.
C13_SkippedHandlesUntouched ==
    \A v \in 1..Len(gs.visits) :
        gs.visits[v].seen \in {"LAZY", "DESTROYED", "DESTROYING"}
            => /\ gs.visits[v].emitted = <<>>
               /\ gs.visits[v].shutdowns = 0
               /\ gs.visits[v].final = gs.visits[v].seen
               /\ \A k \in 1..Len(gs.events) :
                     gs.events[k].agent_name # inst[gs.visits[v].agent].name

\* graceful_shutdown has returned after passing over a DESTROYING and a LAZY
\* or DESTROYED handle and shutting another one down
C13_Witness ==
    /\ gs.pc = "done"
    /\ \E u, v, w \in 1..Len(gs.visits) :
          /\ gs.visits[u].seen = "DESTROYING"
          /\ gs.visits[v].seen \in {"LAZY", "DESTROYED"}
          /\ gs.visits[w].emitted = <<"DESTROYING", "DESTROYED">>

C16_LoopStopsAfterTimeout ==
    [][ gs' # gs
        => /\ gs.pc # "done"
           /\ \A v \in (Len(gs.visits) + 1)..Len(gs'.visits) :
                 clock' - gs'.start_time <= gs'.timeout_seconds
           /\ gs'.stopped # 0
                 => /\ gs'.pc = "done"
                    /\ clock' - gs'.start_time > gs'.timeout_seconds
                    /\ Len(gs'.visits) = gs'.stopped - 1
           /\ \A i \in (Len(gs'.visits) + 1)..Len(NameOrder) :
                 LET o == agents[NameOrder[i]]
                 IN /\ inst'[o] = inst[o]
                    /\ \A k \in 1..Len(gs'.events) :
                          gs'.events[k].agent_name # NameOrder[i]
                    /\ \A k \in (Len(events) + 1)..Len(events') :
                          events'[k].agent_name # NameOrder[i] ]_vars

\* graceful_shutdown has returned on its timeout after shutting one handle
\* down, and the handle it stopped at is still READY
C16_Witness ==
    /\ gs.pc = "done"
    /\ gs.stopped \in 2..Len(NameOrder)
    /\ inst[agents[NameOrder[gs.stopped]]].status = "READY"
    /\ \E v \in 1..Len(gs.visits) : gs.visits[v].final = "DESTROYED"
    /\ \A k \in 1..Len(gs.events) : gs.events[k].agent_name # NameOrder[gs.stopped]

\* the sum of a field over a list of step results
RECURSIVE SumOf(_, _)
SumOf(results, field) ==
    IF results = <<>> THEN 0
    ELSE results[1][field] + SumOf(Tail(results), field)

\* the cost or the duration accumulated over the step results exceeds the
\* ceiling the manifest declares for it
CeilingExceeded ==
    \/ /\ wf.manifest.max_total_cost_usd # None
       /\ SumOf(wf.steps, "cost_usd") > wf.manifest.max_total_cost_usd
    \/ /\ wf.manifest.max_total_duration_seconds # None
       /\ SumOf(wf.steps, "duration_ms")
             > wf.manifest.max_total_duration_seconds * 1000

\* C17: whenever the cost or the duration accumulated over the results of the
\* top-level steps exceeds its declared ceiling, the run has stopped with
\* success=false and the ceiling error, and no step after the one that
\* crossed the ceiling has been started.
C17_RunStopsOnceCeilingExceeded ==
    CeilingExceeded
        => /\ wf.pc = "done"
           /\ ~wf.success
           /\ wf.error.kind = "ceiling"
           /\ wf.i = Len(wf.steps)

\* the top-level steps that ended failed (not skipped) under the policy stop
FailedStopSteps ==
    {k \in 1..Len(wf.steps) :
        /\ ~wf.steps[k].success
        /\ ~wf.steps[k].skipped
        /\ wf.manifest.steps[k].on_failure = "stop"}

C19_SkippedStepDoesNotHalt ==
    \A k \in 1..Len(wf.steps) :
        LET r == wf.steps[k]
        IN ( /\ wf.manifest.steps[k].on_failure = "skip"
             /\ r.calls >= 1
             /\ r.throws = r.calls )
           => /\ r.skipped /\ ~r.success /\ r.error = "raised"
              /\ r.cost_usd = 0 /\ r.duration_ms = 0
              /\ k < Len(wf.manifest.steps)
                    => /\ wf.i > k
                       /\ wf.pc = "done" => Len(wf.steps) > k
              /\ k = Len(wf.manifest.steps) /\ wf.pc = "done"
                    => wf.error.kind # "step_failed"

\* a skip step used up its two attempts, and the step after it was executed
\* and returned
C19_Witness ==
    \E k \in 1..Len(wf.steps) :
        /\ wf.manifest.steps[k].on_failure = "skip"
        /\ wf.manifest.steps[k].retry_count = 1
        /\ wf.steps[k].throws = 2
        /\ wf.steps[k].skipped
        /\ Len(wf.steps) > k
        /\ wf.steps[k + 1].calls >= 1
        /\ wf.steps[k + 1].success

\* C20: an agent step calls ctx.execute at most retry_count + 1 times; every
\* call but the first follows a call that raised, and no call follows a call
\* that returned, whatever the returned result reports.
C20_RetryOnlyAfterException ==
    /\ \A k \in 1..Len(wf.steps) :
          LET r == wf.steps[k]
              returned == r.error # "raised"
          IN /\ r.calls <= wf.manifest.steps[k].retry_count + 1
             /\ r.calls = r.throws + (IF returned THEN 1 ELSE 0)
             /\ ~returned => r.calls = wf.manifest.steps[k].retry_count + 1
    /\ wf.pc \in {"calling", "backoff"}
          => /\ wf.calls <= wf.manifest.steps[wf.i].retry_count + 1
             /\ wf.calls = wf.throws + (IF wf.pc = "calling" THEN 1 ELSE 0)

\* one step returned a failure at its first call and was not retried although
\* it had a retry left; another succeeded at its second call
C20_Witness ==
    \E j, k \in 1..Len(wf.steps) :
        /\ wf.manifest.steps[j].retry_count = 1
        /\ wf.steps[j].error = "failed" /\ wf.steps[j].calls = 1
        /\ wf.steps[k].success /\ wf.steps[k].calls = 2 /\ wf.steps[k].throws = 1

\* C21: the retries field of an agent step's result is the number of attempts
\* made minus one: the number of throwing attempts when the step returned on
\* the attempt after them, and retry_count when every one of the
\* retry_count + 1 attempts threw.
C21_RetriesIsAttemptsMinusOne ==
    \A k \in 1..Len(wf.steps) :
        LET r == wf.steps[k]
            step == wf.manifest.steps[k]
        IN /\ r.retries = r.calls - 1
           /\ r.throws < r.calls => r.retries = r.throws
           /\ r.throws = r.calls
                 => r.calls = step.retry_count + 1 /\ r.retries = step.retry_count

\* a step returned on the attempt after a throwing one, and another step used
\* up its two attempts
C21_Witness ==
    \E j, k \in 1..Len(wf.steps) :
        /\ wf.steps[j].throws = 1 /\ wf.steps[j].calls = 2 /\ wf.steps[j].retries = 1
        /\ wf.steps[k].throws = 2 /\ wf.steps[k].calls = 2
        /\ wf.manifest.steps[k].retry_count = 1

\* the names of the agent sub-steps of the parallel groups among steps, in the
\* order the manifest declares them
RECURSIVE DeclaredSubSteps(_, _)
DeclaredSubSteps(steps, in_group) ==
    IF steps = <<>>
    THEN <<>>
    ELSE LET step == Head(steps)
             own == IF step.type = "agent" /\ in_group THEN <<step.name>> ELSE <<>>
             below == IF step.type = "parallel"
                      THEN DeclaredSubSteps(step.steps, TRUE) ELSE <<>>
         IN own \o below \o DeclaredSubSteps(Tail(steps), in_group)

\* the place of name in a list of names
PlaceOf(name, names) == CHOOSE k \in 1..Len(names) : names[k] = name

\* C22: in wf_result.steps the results of the agent sub-steps of the parallel
\* groups stand in the order the manifest declares those sub-steps, whatever
\* order they completed in.
C22_SubResultsInDeclaredOrder ==
    LET names == DeclaredSubSteps(eng.manifest.steps, FALSE)
        subs == {k \in 1..Len(eng.steps) :
                    \E n \in 1..Len(names) : names[n] = eng.steps[k].name}
    IN \A j, k \in subs :
          j < k => PlaceOf(eng.steps[j].name, names) < PlaceOf(eng.steps[k].name, names)

\* the largest of a field over a list of step results, 0 for none
RECURSIVE MaxOf(_, _)
MaxOf(results, field) ==
    IF results = <<>> THEN 0
    ELSE LET rest == MaxOf(Tail(results), field)
         IN IF Head(results)[field] > rest THEN Head(results)[field] ELSE rest

\* the results in wf_result.steps of the sub-steps of the group named name, in
\* the order the group declares them
SubResultsOf(name) ==
    LET subs == FindStep(name, eng.manifest.steps).steps
    IN [j \in 1..Len(subs) |->
           eng.steps[CHOOSE k \in 1..Len(eng.steps) : eng.steps[k].name = subs[j].name]]

\* C23: the result of a non-empty parallel step has the sum of its sub-steps'
\* costs as its cost and the largest of their durations as its duration, and
\* is successful exactly when each of them is successful or skipped.
C23_ParallelResultAggregatesSubResults ==
    \A k \in 1..Len(eng.steps) :
        LET r == eng.steps[k]
        IN r.type = "parallel" /\ FindStep(r.name, eng.manifest.steps).steps # <<>>
           => LET subs == SubResultsOf(r.name)
              IN /\ r.cost_usd = SumOf(subs, "cost_usd")
                 /\ r.duration_ms = MaxOf(subs, "duration_ms")
                 /\ r.success <=> \A j \in 1..Len(subs) :
                                     subs[j].success \/ subs[j].skipped

\* a group of two sub-steps of different cost and duration, one of them
\* skipped, has returned its result, a success
C23_Witness ==
    \E k \in 1..Len(eng.steps) :
        /\ eng.steps[k].name = "par" /\ eng.steps[k].type = "parallel"
        /\ eng.steps[k].success
        /\ eng.steps[k].duration_ms = 2000 /\ eng.steps[k].cost_usd = 1
        /\ LET subs == SubResultsOf("par")
           IN Len(subs) = 2 /\ subs[1].skipped /\ subs[1].duration_ms = 0
              /\ subs[2].duration_ms = 2000

\* C24: once run has returned for a manifest whose only top-level step is a
\* parallel group of n agent sub-steps, n of at least one, wf_result.steps
\* holds exactly n step results.
C24_GroupOfNLeavesNResults ==
    eng.pc = "done" /\ eng.manifest.steps \in ParallelManifests
                    /\ eng.manifest.steps[1].steps # <<>>
        => Len(eng.steps) = Len(eng.manifest.steps[1].steps)

\* C24, amended: once run has returned for a manifest whose only top-level
\* step is a parallel group of n agent sub-steps, n of at least one,
\* wf_result.steps holds exactly n + 1 step results: those of the n sub-steps
\* in the order the group declares them, then the group's own result.
C24_GroupOfNLeavesNPlusOneResults ==
    eng.pc = "done" /\ eng.manifest.steps \in ParallelManifests
                    /\ eng.manifest.steps[1].steps # <<>>
        => LET group == eng.manifest.steps[1]
               n == Len(group.steps)
           IN /\ Len(eng.steps) = n + 1
              /\ \A k \in 1..n : /\ eng.steps[k].name = group.steps[k].name
                                 /\ eng.steps[k].type = "agent"
              /\ eng.steps[n + 1].name = group.name
              /\ eng.steps[n + 1].type = "parallel"

\* run has returned for a group of two agent sub-steps, the second of which
\* completed first
C24_Witness ==
    /\ eng.pc = "done" /\ eng.manifest.steps \in ParallelManifests
    /\ Len(eng.manifest.steps[1].steps) = 2
    /\ Len(eng.steps) = 3
    /\ eng.steps[1].duration_ms = 1000 /\ eng.steps[2].duration_ms = 2000
    /\ eng.steps[3].cost_usd = 3

\* the results in wf_result.steps that run appended for its top-level steps
TopLevelResults ==
    SelectSeq(eng.steps,
              LAMBDA r : \E k \in 1..Len(eng.manifest.steps) :
                            eng.manifest.steps[k].name = r.name)

\* C25: once run has returned, wf_result.total_cost_usd is the sum of cost_usd
\* over the entries of wf_result.steps.
C25_TotalCostIsSumOverSteps ==
    eng.pc = "done" => eng.total_cost_usd = SumOf(eng.steps, "cost_usd")

\* the results in wf_result.steps of the agent steps
AgentResults == SelectSeq(eng.steps, LAMBDA r : r.type = "agent")

\* C25, amended: once run has returned, wf_result.total_cost_usd is the sum
\* of cost_usd over the results of the executed top-level steps, a parallel
\* group's own result carrying the sum of its sub-steps' costs; this counts
\* the cost of every agent step's result exactly once.
C25_TotalCostIsSumOverTopLevel ==
    eng.pc = "done"
        => /\ eng.total_cost_usd = SumOf(TopLevelResults, "cost_usd")
           /\ eng.total_cost_usd = SumOf(AgentResults, "cost_usd")

\* run has returned for a parallel group of two sub-steps that cost 2 and 1:
\* the total is 3 while the entries of wf_result.steps add up to 6
C25_Witness ==
    /\ eng.pc = "done" /\ eng.manifest.steps \in ParallelManifests
    /\ Len(eng.steps) = 3
    /\ eng.total_cost_usd = 3
    /\ SumOf(eng.steps, "cost_usd") = 6

\* C26: once run has returned, wf_result.total_duration_ms is the sum of
\* duration_ms over the results of the executed top-level steps, the value
\* the duration ceiling was checked against last.
C26_TotalDurationIsSumOverTopLevel ==
    eng.pc = "done"
        => /\ eng.total_duration_ms = SumOf(TopLevelResults, "duration_ms")
           /\ eng.total_duration_ms = eng.checked_duration_ms

\* C27: a conditional step with the condition steps.s1.success, placed after
\* the top-level step s1, selects if_true when the recorded result of s1 has
\* success true and if_false when it has not; a condition whose path has a
\* missing segment selects if_false.
C27_ConditionFollowsRecordedSuccess ==
    LET steps == eng.manifest.steps
    IN eng.manifest.steps \in ConditionManifests /\ Len(eng.steps) >= 2
          /\ steps[2].if_true = "s3"
       => /\ steps[2].condition = SuccessOf("s1")
             => eng.steps[2].name = IF eng.steps[1].success THEN "s3" ELSE "s4"
          /\ steps[2].condition = SuccessOf("nope") => eng.steps[2].name = "s4"

\* C28: in a run of a manifest whose conditional step names the top-level
\* steps s3 and s4 as its targets, ctx.execute is called for one of the two
\* only, and wf_result.steps holds a result for one of the two only.
C28_OnlySelectedTargetExecuted ==
    LET steps == eng.manifest.steps
    IN eng.manifest.steps \in ConditionManifests
          /\ steps[2].condition # <<>> /\ steps[2].if_true = "s3"
       => /\ ~(\E j, k \in 1..Len(eng.invoked) :
                  eng.invoked[j] = "s3" /\ eng.invoked[k] = "s4")
          /\ ~(\E j, k \in 1..Len(eng.steps) :
                  eng.steps[j].name = "s3" /\ eng.steps[k].name = "s4")

\* the synchronous invocations of the agent named n whose runtime call has
\* returned
ReturnedCalls(n) ==
    {t \in 1..MaxTasks :
        /\ tasks[t].mode = "sync" /\ tasks[t].name = n
        /\ tasks[t].outcome \in {"returned_success", "returned_error"}}

\* the sum of a field of the execution results of a set of invocations
RECURSIVE SumOverCalls(_, _)
SumOverCalls(calls, field) ==
    IF calls = {} THEN 0
    ELSE LET t == CHOOSE u \in calls : TRUE
         IN ExecutionResult(tasks[t].rt)[field] + SumOverCalls(calls \ {t}, field)

\* C29: after any interleaving of synchronous invocations, the query_count of
\* the handle registered under a name is the number of the invocations of
\* that name whose runtime call has returned, and its total cost and total
\* duration are the sums of those invocations' cost and duration.
C29_CountersMatchReturnedCalls ==
    \A n \in Names :
        LET a == inst[agents[n]]
        IN /\ a.query_count = Cardinality(ReturnedCalls(n))
           /\ a.total_cost_usd = SumOverCalls(ReturnedCalls(n), "cost_usd")
           /\ a.total_duration_ms = SumOverCalls(ReturnedCalls(n), "duration_ms")

\* C30: the transaction counter moves only by one, and only when an invocation
\* is given its transaction id; the id given is the new value of the counter,
\* larger than every id given before; an id once given is kept, and no two
\* invocations hold the same id.
C30_TxIdsDistinctAndIncreasing ==
    [][ /\ tx_counter' \in {tx_counter, tx_counter + 1}
        /\ tx_counter' # tx_counter
              => \E t \in 1..MaxTasks : tasks'[t].tx # tasks[t].tx
        /\ \A t \in 1..MaxTasks :
              tasks'[t].tx # tasks[t].tx
                 => /\ tasks[t].tx = 0
                    /\ tx_counter' = tx_counter + 1
                    /\ tasks'[t].tx = tx_counter'
                    /\ \A u \in 1..MaxTasks \ {t} :
                          /\ tasks'[u].tx = tasks[u].tx
                          /\ tasks[u].tx < tasks'[t].tx
        /\ \A t, u \in 1..MaxTasks :
              t # u /\ tasks'[t].tx # 0 /\ tasks'[u].tx # 0
                 => /\ tasks'[t].tx # tasks'[u].tx
                    /\ TxId(tasks'[t].tx) # TxId(tasks'[u].tx) ]_vars

\* two invocations whose runtime calls are under way at the same time hold
\* the ids 1 and 2
C30_Witness ==
    \E t, u \in 1..MaxTasks :
        /\ tasks[t].mode = "sync" /\ tasks[t].pc = "running" /\ tasks[t].tx = 1
        /\ tasks[u].mode = "sync" /\ tasks[u].pc = "running" /\ tasks[u].tx = 2

\* C31: the history never holds more than 500 records; a step that is not a
\* successful transition leaves it alone; a successful transition puts its
\* record at the end and, beyond 500, drops the oldest, every record that
\* stays keeping its content and its place relative to the others.
C31_HistoryIsMostRecentTransitions ==
    [][ /\ Len(events') <= 500
        /\ \/ events' = events /\ inst' = inst
           \/ \E o \in 1..Len(inst), error \in {"none", "crash"} :
                 LET all == Append(events,
                                   LifecycleEvent(inst[o].name, inst[o].status,
                                                  inst'[o].status, error))
                 IN /\ inst'[o].status # inst[o].status
                    /\ \A q \in 1..Len(inst) \ {o} : inst'[q] = inst[q]
                    /\ Len(events') = IF Len(all) < 500 THEN Len(all) ELSE 500
                    /\ \A k \in 1..Len(events') :
                          events'[k] = all[Len(all) - Len(events') + k] ]_vars

\* the history is full and its oldest record is not the first transition of
\* a1, which left READY: older records have been dropped
C31_Witness ==
    /\ Len(events) = 500
    /\ events[1].agent_name = "a1" /\ events[1].old_status = "EXECUTING"
    /\ events[500].old_status = "READY"

\* C32: a successful transition calls every registered callback exactly once,
\* in registration order, each with the record of this transition and with
\* the handle's status already changed and the record already the last one of
\* the history; whether any of them raises, the call returns without raising
\* and the handle has its new status.
C32_CallbacksAllCalledInOrder ==
    [][ \A o \in 1..Len(inst) :
          inst'[o].status # inst[o].status
             => /\ lcCall' = [op |-> "transition", raised |-> "none"]
                /\ Len(cbLog') = Len(callbacks)
                /\ \A i \in 1..Len(callbacks) :
                      /\ cbLog'[i].cb = i
                      /\ cbLog'[i].event.agent_name = inst[o].name
                      /\ cbLog'[i].event.old_status = inst[o].status
                      /\ cbLog'[i].event.new_status = inst'[o].status
                      /\ cbLog'[i].status = inst'[o].status
                      /\ cbLog'[i].recorded = events'
                      /\ events'[Len(events')] = cbLog'[i].event ]_vars

\* a transition succeeded with two callbacks registered, the first of which
\* raised
C32_Witness ==
    /\ lcCall = [op |-> "transition", raised |-> "none"]
    /\ Len(callbacks) = 2 /\ Len(cbLog) = 2
    /\ cbLog[1].raised /\ ~cbLog[2].raised
    /\ \E o \in 1..Len(inst) : inst[o].status = cbLog[2].event.new_status
                               /\ inst[o].name = cbLog[2].event.agent_name

\* C33: once run has returned success=true, every entry of wf_result.steps has
\* success=true or skipped=true.
C33_SuccessMeansNoFailedStep ==
    wf.pc = "done" /\ wf.success
        => \A k \in 1..Len(wf.steps) : wf.steps[k].success \/ wf.steps[k].skipped

\* a call of ctx.execute or a sleep of the run is outstanding
CallPending ==
    \E f \in 1..Len(eng.frames) : eng.frames[f].pc \in {"calling", "backoff"}

RunEndedByRecursionError ==
    eng.pc = "done" /\ eng.error.kind = "exception"

\* C35: a declared ceiling of 0 is enforced like any other: once a top-level
\* step with a positive cost stands in the result of a run whose
\* max_total_cost_usd is 0, or one with a positive duration in the result of
\* a run whose max_total_duration_seconds is 0, the run has halted with the
\* ceiling error.
C35_ZeroCeilingEnforced ==
    LET positive(field) == \E k \in 1..Len(wf.steps) : wf.steps[k][field] > 0
    IN (\/ wf.manifest.max_total_cost_usd = 0 /\ positive("cost_usd")
        \/ wf.manifest.max_total_duration_seconds = 0 /\ positive("duration_ms"))
           => /\ wf.pc = "done"
              /\ ~wf.success
              /\ wf.error.kind = "ceiling"

\* the handles of the agent named n that have a runtime bound
WithRuntime(n) ==
    {o \in 1..Len(inst) : inst[o].name = n /\ inst[o].runtime # 0}

\* C36: calls of execute that overlap on one LAZY agent create its runtime
\* at most once, and every runtime created stays bound to the handle the
\* table holds for its agent.
C36_LazyRuntimeCreatedOnce ==
    \A n \in Names :
        /\ Cardinality(WithRuntime(n)) <= 1
        /\ \A o \in WithRuntime(n) : agents[n] = o

\* C37: however calls of execute interleave with shutdown, execute never
\* invokes the runtime of an agent that is DESTROYING or DESTROYED: the handle
\* a call sets out with on its runtime call has neither status at that moment.
C37_NoInvocationOfDestroyedAgent ==
    [][\A t \in 1..MaxTasks :
          (/\ tasks[t].pc # "running"
           /\ tasks'[t].pc = "running"
           /\ tasks'[t].agent \in 1..Len(inst))
              => inst[tasks'[t].agent].status \notin {"DESTROYING", "DESTROYED"}]_vars

\* the handle execution t ran on has one of the given statuses
RanOn(t, statuses) ==
    /\ tasks[t].agent # 0
    /\ inst[tasks[t].agent].status \in statuses

\* C38: after an asynchronous execution has been cancelled while its runtime
\* call was under way, the agent it ran on does not stay EXECUTING: its
\* status comes back to READY or ERROR.
C38_CancelledAgentLeavesExecuting ==
    \A t \in 1..MaxTasks :
        (tasks[t].outcome = "cancelled" /\ RanOn(t, {"EXECUTING"}))
            ~> RanOn(t, {"READY", "ERROR"})

\* C39: when graceful_shutdown has come to its end without running into its
\* timeout and without a runtime shutdown raising, every handle that was not
\* LAZY when the loop came to it has been left in DESTROYED, whatever status
\* it had.
C39_EveryHandleEndsDestroyed ==
    (/\ gs.pc = "done"
     /\ gs.stopped = 0
     /\ \A v \in 1..Len(gs.visits) : ~gs.visits[v].shutdown_raised)
        => \A v \in 1..Len(gs.visits) :
              gs.visits[v].seen # "LAZY" => gs.visits[v].final = "DESTROYED"

\* C40: however broadcast calls and the disconnects of clients interleave,
\* each connection is taken off the connection list at most once, and neither
\* broadcast nor disconnect raises because the connection was no longer in
\* the list.
C40_ConnectionRemovedOnceWithoutError ==
    /\ \A w \in WebSockets :
          /\ cm.removals[w] <= 1
          /\ cm.handler[w] # "ValueError"
    /\ \A b \in 1..MaxBroadcasts : cm.bc[b].raised # "ValueError"

====
